---- MODULE Spec2Model ----
(***************************************************************************)
(* Model of the hybrid CCU spike detector of Project Harvest               *)
(* (app/services/ml_service.py): MLService._detect_anomalies_hybrid and    *)
(* its caller MLService.detect_anomalies.                                  *)
(*                                                                         *)
(* Conventions                                                             *)
(*  - A CCU series is a function from 0..n-1 (Python indices) to naturals: *)
(*    CCU samples are counts of concurrent users, so int(x) and float(x)   *)
(*    are exact on them.                                                   *)
(*  - mean_ccu and the spike threshold are rationals.  They are kept as    *)
(*    integers scaled by 4 * n_points (mean_ccu * 4n = 4 * sum), which     *)
(*    makes the factors 2, 1.5 and 0.25 of the scale tiers integral.       *)
(*    Floating point rounding of np.mean is not modelled.                  *)
(*  - The three statistical detectors (STL, find_peaks, LOF) are library   *)
(*    computations; each call either raises or returns a set of indices of *)
(*    the series, chosen nondeterministically.                             *)
(***************************************************************************)
EXTENDS Integers, Sequences, FiniteSets, TLC

\* ------------------------------------------------------------------ bounds
\* Longest series given to a direct call of _detect_anomalies_hybrid.
MaxLen == 3

\* On such a short series a detector flags samples among the last FlagSpan.
FlagSpan == 2

\* High CCU values of the short series, one in each scale tier (tiny < 20,
\* small < 50, larger); every sample of a short series is 0 or the high
\* value of the series.
HighValues == {15, 30, 60}

\* ------------------------------------------------------- program constants
TinyMapLimit == 20
SmallMapLimit == 50
DefaultMinVotes == 2
DefaultGroupingWindow == 6

Methods == {"STL", "peak_prominence", "LOF"}

\* Order of the keys of method_results (dict insertion order).
MethodOrder == <<"STL", "peak_prominence", "LOF">>

VARIABLES
    pc,               \* position of the call in progress
    ccu_series,       \* _detect_anomalies_hybrid: the analysed series
    min_votes,        \*   and its parameters
    grouping_window,
    focus_recent,
    recent_count,
    detector_out,     \* what each detector call produced (history)
    spike_events,     \* the groups of consensus indices (local of the call)
    result,           \* the dict the hybrid returned, NoResult before
    map_data,         \* detect_anomalies: what fetch_map_from_api returned
    historical,       \*   what _load_historical_ccu returned
    response,         \*   the dict returned or the error raised
    args,             \* the inputs of a call of one of the other methods
    ret,              \*   and what the call returned or raised
    io_log,           \* the requests and file operations made, in order
    files,            \* the files on disk: name |-> content
    tasks,            \* the concurrent invocations: id |-> position and locals
    chat_session      \* ChatService.chat_session of the shared instance

hybrid_vars == <<ccu_series, min_votes, grouping_window, focus_recent,
                 recent_count, detector_out, spike_events, result>>

detect_vars == <<map_data, historical, response>>

call_vars == <<args, ret>>

sys_vars == <<io_log, files, tasks, chat_session>>

vars == <<pc, hybrid_vars, detect_vars, call_vars, sys_vars>>

NoResult == [returned |-> FALSE]
NoArgs == [given |-> FALSE]
NoReturn == [kind |-> "none"]
NoSession == [started |-> FALSE]

\* nothing requested, no file, no invocation, no chat session
SysIdle ==
    /\ io_log = <<>>
    /\ files = <<>>
    /\ tasks = <<>>
    /\ chat_session = NoSession

\* ------------------------------------------------------------ arithmetic
Max2(a, b) == IF a >= b THEN a ELSE b

\* The sum of arr[lo..hi], by halves so that a long series stays shallow.
RECURSIVE SumRange(_, _, _)
SumRange(arr, lo, hi) ==
    IF lo > hi THEN 0
    ELSE IF lo = hi THEN arr[lo]
    ELSE LET mid == (lo + hi) \div 2
         IN  SumRange(arr, lo, mid) + SumRange(arr, mid + 1, hi)

NPoints(arr) == Cardinality(DOMAIN arr)

\* np.sum(arr)
SumOf(arr) == SumRange(arr, 0, NPoints(arr) - 1)

\* np.max(arr)
RECURSIVE MaxRange(_, _, _)
MaxRange(arr, lo, hi) ==
    IF lo = hi THEN arr[lo]
    ELSE LET mid == (lo + hi) \div 2
         IN  Max2(MaxRange(arr, lo, mid), MaxRange(arr, mid + 1, hi))

MaxOf(arr) == MaxRange(arr, 0, NPoints(arr) - 1)

\* n_points, np.sum(arr) and np.max(arr) of the analysed series; mean_ccu
\* is sum / n.
Stats(arr) == [n |-> NPoints(arr), sum |-> SumOf(arr), max |-> MaxOf(arr)]

IsSmallMap(st) == st.max < SmallMapLimit
IsTinyMap(st) == st.max < TinyMapLimit

\* Faulty variant: the threshold of the larger maps for every map, whatever its tier.
MinSpikeMagnitude4n_NoTiers(st) == Max2(20 * 4 * st.n, st.sum)

\* min_spike_magnitude * 4n
MinSpikeMagnitude4n(st) ==
    IF IsTinyMap(st) THEN Max2(10 * 4 * st.n, 2 * 4 * st.sum)
    ELSE IF IsSmallMap(st) THEN Max2(15 * 4 * st.n, 6 * st.sum)
    ELSE Max2(20 * 4 * st.n, st.sum)

\* (peak_ccu - mean_ccu) * 4n
SpikeMagnitude4n(st, peak_ccu) == 4 * st.n * peak_ccu - 4 * st.sum

\* round(x, 1) of the rational num/den >= 0, in tenths, ties to even
\* (Python's round on the exact value).
RoundTenths(num, den) ==
    LET q == (10 * num) \div den
        r == (10 * num) % den
    IN  IF 2 * r > den THEN q + 1
        ELSE IF 2 * r < den THEN q
        ELSE IF q % 2 = 0 THEN q ELSE q + 1

\* ------------------------------------------------------- consensus, groups
\* np.where(votes >= min_votes)[0].tolist(): ascending indices
RECURSIVE AscendingFrom(_, _, _)
AscendingFrom(S, lo, hi) ==
    IF lo > hi THEN <<>>
    ELSE IF lo = hi THEN (IF lo \in S THEN <<lo>> ELSE <<>>)
    ELSE LET mid == (lo + hi) \div 2
         IN  AscendingFrom(S, lo, mid) \o AscendingFrom(S, mid + 1, hi)

\* Faulty variant: one vote is enough, whatever min_votes is.
ConsensusIndices_AnyVote(v, mv) ==
    AscendingFrom({i \in DOMAIN v : v[i] >= 1}, 0, NPoints(v) - 1)

ConsensusIndices(v, mv) ==
    AscendingFrom({i \in DOMAIN v : v[i] >= mv}, 0, NPoints(v) - 1)

\* Faulty variant: a strict comparison with the window.
WithinWindow_Strict(idx, last, gw) == idx - last < gw

\* if idx - current_spike[-1] <= grouping_window
WithinWindow(idx, last, gw) == idx - last <= gw

\* The grouping loop: idx joins current_spike when it is within gw of the
\* last index of current_spike, otherwise current_spike is closed.
RECURSIVE GroupLoop(_, _, _, _, _)
GroupLoop(ci, k, events, current_spike, gw) ==
    IF k > Len(ci) THEN Append(events, current_spike)
    ELSE IF WithinWindow(ci[k], current_spike[Len(current_spike)], gw)
         THEN GroupLoop(ci, k + 1, events, Append(current_spike, ci[k]), gw)
         ELSE GroupLoop(ci, k + 1, Append(events, current_spike), <<ci[k]>>, gw)

SpikeEvents(ci, gw) == GroupLoop(ci, 2, <<>>, <<ci[1]>>, gw)

\* Faulty variant: the first sample of the group stands for it.
PeakIdx_First(arr, spike_group) == spike_group[1]

\* max(spike_group, key=lambda i: arr[i]): the first index of the group
\* whose value no other index of the group exceeds.
PeakIdx(arr, spike_group) ==
    LET best == CHOOSE k \in 1..Len(spike_group) :
                  /\ \A j \in 1..Len(spike_group) :
                        arr[spike_group[j]] <= arr[spike_group[k]]
                  /\ \A j \in 1..(k - 1) :
                        arr[spike_group[j]] < arr[spike_group[k]]
    IN  spike_group[best]

Members(seq) == {seq[k] : k \in 1..Len(seq)}

RecentStartIdx(n, fr, rc) == IF fr /\ rc > 0 THEN n - rc ELSE 0

\* Faulty variant: no filtering of the old part.
SkippedAsOld_Never(peak_idx, n, fr, rc) == FALSE

\* FOCUS_RECENT FILTERING
SkippedAsOld(peak_idx, n, fr, rc) ==
    fr /\ rc > 0 /\ peak_idx < RecentStartIdx(n, fr, rc)

\* Faulty variant: no group is too small to report.
SkippedAsSmall_Never(st, peak_ccu) == FALSE

\* SCALE-AWARE FILTERING
SkippedAsSmall(st, peak_ccu) ==
    SpikeMagnitude4n(st, peak_ccu) < MinSpikeMagnitude4n(st)

\* Faulty variant: the index is not rebased.
DisplayIdx_NotRebased(peak_idx, n, fr, rc) == peak_idx

DisplayIdx(peak_idx, n, fr, rc) ==
    IF fr THEN peak_idx - RecentStartIdx(n, fr, rc) ELSE peak_idx

\* Faulty variant: only the methods that flagged the first sample of the group.
MethodsAgreed_FirstOnly(mr, spike_group) ==
    {m \in Methods : spike_group[1] \in mr[m]}

MethodsAgreed(mr, spike_group) ==
    {m \in Methods : \E i \in mr[m] : i \in Members(spike_group)}

\* The dict appended to spike_details for a group that passes the filters.
SpikeDetail(arr, st, v, mr, spike_group, peak_idx, fr, rc) ==
    [peak_index |-> DisplayIdx(peak_idx, st.n, fr, rc),
     original_index |-> peak_idx,
     peak_ccu |-> arr[peak_idx],
     spike_magnitude |-> RoundTenths(SpikeMagnitude4n(st, arr[peak_idx]), 4 * st.n),
     votes |-> v[peak_idx],
     spike_duration_indices |-> Len(spike_group),
     methods_agreed |-> MethodsAgreed(mr, spike_group)]

\* The loop over spike_events: the details of the groups that pass both
\* filters, in group order.
RECURSIVE SpikeLoop(_, _, _, _, _, _, _, _)
SpikeLoop(arr, st, v, mr, events, k, fr, rc) ==
    IF k > Len(events) THEN <<>>
    ELSE LET peak_idx == PeakIdx(arr, events[k])
             rest == SpikeLoop(arr, st, v, mr, events, k + 1, fr, rc)
         IN  IF SkippedAsOld(peak_idx, st.n, fr, rc) THEN rest
             ELSE IF SkippedAsSmall(st, arr[peak_idx]) THEN rest
             ELSE <<SpikeDetail(arr, st, v, mr, events[k], peak_idx, fr, rc)>>
                  \o rest

MapScale(st) ==
    [mean_ccu |-> RoundTenths(st.sum, st.n),
     max_ccu |-> st.max,
     min_spike_threshold |-> RoundTenths(MinSpikeMagnitude4n(st), 4 * st.n),
     is_small_map |-> IsSmallMap(st)]

\* The dict returned when no sample reaches min_votes.
NoConsensusResult(v, mr) ==
    [returned |-> TRUE,
     spike_indices |-> <<>>,
     spike_details |-> <<>>,
     num_spikes |-> 0,
     method_results |-> mr,
     votes |-> v]

\* The dict returned after the loop over the spike events.
FullResult(st, v, mr, details, fr, rc) ==
    [returned |-> TRUE,
     spike_indices |-> [k \in 1..Len(details) |-> details[k].peak_index],
     spike_details |-> details,
     num_spikes |-> Len(details),
     method_results |-> mr,
     votes |-> v,
     map_scale |-> MapScale(st),
     historical_context |->
        [using_historical |-> fr,
         total_data_points |-> st.n,
         recent_data_points |-> IF fr THEN rc ELSE st.n]]


\* ------------------------------------------------------------- detectors
\* Index sets a detector may return on a series of n samples: on a short
\* series any set of indices among the last FlagSpan; on a long series
\* nothing, the first sample, the last sample or both.
FlaggedSets(n) ==
    IF n <= MaxLen THEN SUBSET {i \in 0..(n - 1) : i >= n - FlagSpan}
    ELSE {{}, {0}, {n - 1}, {0, n - 1}}

\* A detector call raises or returns a list of distinct indices.
DetectorOutcomes(n) ==
    {[raised |-> TRUE, indices |-> {}]}
    \cup {[raised |-> FALSE, indices |-> f] : f \in FlaggedSets(n)}

NoOutcome == [raised |-> FALSE, indices |-> {}]

\* Faulty variant: one try block around the three detectors, so that nothing is
\* counted from the first failure on.
MethodResult_SharedTry(outs, m) ==
    IF \E k \in 1..Len(MethodOrder) :
          /\ outs[MethodOrder[k]].raised
          /\ \E j \in k..Len(MethodOrder) : MethodOrder[j] = m
    THEN {} ELSE outs[m].indices

\* try: method_results[m] = detector(ccu_series)
\* except Exception: method_results[m] = []
MethodResult(outs, m) == IF outs[m].raised THEN {} ELSE outs[m].indices

MethodResults(outs) == [m \in Methods |-> MethodResult(outs, m)]

\* for idx in indices: votes[idx] += 1
AddVotes(v, indices) ==
    [i \in DOMAIN v |-> IF i \in indices THEN v[i] + 1 ELSE v[i]]

\* votes after the three try blocks, in the order of the code
RECURSIVE VotesAfter(_, _, _)
VotesAfter(v, mr, k) ==
    IF k > Len(MethodOrder) THEN v
    ELSE VotesAfter(AddVotes(v, mr[MethodOrder[k]]), mr, k + 1)

Votes(n, mr) == VotesAfter([i \in 0..(n - 1) |-> 0], mr, 1)

\* spike_events when the call gets past the early return
GroupsOf(ci, gw) == IF ci = <<>> THEN <<>> ELSE SpikeEvents(ci, gw)

\* The dict _detect_anomalies_hybrid returns, from votes v, method_results
\* mr and the groups of consensus indices.
HybridResult(arr, v, mr, events, fr, rc) ==
    LET st == Stats(arr)
    IN  IF events = <<>>
        THEN NoConsensusResult(v, mr)
        ELSE FullResult(st, v, mr,
                        SpikeLoop(arr, st, v, mr, events, 1, fr, rc), fr, rc)

\* One call of _detect_anomalies_hybrid: synchronous, so one step.
DetectAnomaliesHybrid ==
    /\ pc = "hybrid"
    /\ \E outs \in [Methods -> DetectorOutcomes(NPoints(ccu_series))] :
          LET mr == MethodResults(outs)
              v == Votes(NPoints(ccu_series), mr)
              events == GroupsOf(ConsensusIndices(v, min_votes), grouping_window)
          IN  /\ detector_out' = outs
              /\ spike_events' = events
              /\ result' = HybridResult(ccu_series, v, mr, events,
                                        focus_recent, recent_count)
    /\ pc' = "hybrid_done"
    /\ UNCHANGED <<ccu_series, min_votes, grouping_window, focus_recent,
                   recent_count, detect_vars>>
    /\ UNCHANGED <<call_vars, sys_vars>>

\* ----------------------------------------------------------- detect_anomalies
MinSamples == 50
MaxSpikeDetails == 10

NotFetched == [found |-> FALSE]
NoHistory == [ccu |-> <<>>, days |-> 0]
NoResponse == [kind |-> "none"]

Flat(n, v) == [i \in 0..(n - 1) |-> v]
Spiked(n, v, p, h) == [i \in 0..(n - 1) |-> IF i = p THEN h ELSE v]

\* Series of a given length the data source may serve: a flat low series,
\* or one with a single high sample at its start or at its end.
SeriesShapes(n) ==
    IF n = 0 THEN {Flat(0, 0)}
    ELSE {Flat(n, 5), Spiked(n, 5, 0, 60), Spiked(n, 5, n - 1, 60)}

FetchedSeries == UNION {SeriesShapes(n) : n \in {0, MinSamples - 1, MinSamples}}

\* What fetch_map_from_api may return: None, or the map with its 7-day
\* stats, served live or from the local snapshot.
FetchResults ==
    {NotFetched}
    \cup {[found |-> TRUE,
           map_data |-> [name |-> "map"],
           stats_7d |-> [success |-> ok, stats |-> s],
           source |-> "live_api"] :
            ok \in BOOLEAN, s \in FetchedSeries}
    \cup {[found |-> TRUE,
           map_data |-> [name |-> "map"],
           stats_7d |-> [success |-> ok, stats |-> s],
           source |-> "local_cache",
           cache_warning |-> "may be outdated",
           collection_date |-> "October 30"] :
            ok \in BOOLEAN, s \in FetchedSeries}

\* What _load_historical_ccu may return: nothing, or the readings of the
\* stored snapshots, exactly twice as long as the shortest usable series
\* or one sample longer.
HistoricalResults ==
    {NoHistory}
    \cup {[ccu |-> s, days |-> 30] :
            s \in UNION {SeriesShapes(n) : n \in {2 * MinSamples, 2 * MinSamples + 1}}}

\* await fetch_map_from_api(map_code)
FetchMap ==
    /\ pc = "fetch"
    /\ map_data' \in FetchResults
    /\ pc' = "check"
    /\ UNCHANGED <<hybrid_vars, historical, response>>
    /\ UNCHANGED <<call_vars, sys_vars>>

\* if not map_data: raise ValueError
RaiseNotFound ==
    /\ pc = "check"
    /\ ~map_data.found
    /\ response' = [kind |-> "error", error |-> "Map not found"]
    /\ pc' = "raised"
    /\ UNCHANGED <<hybrid_vars, map_data, historical>>
    /\ UNCHANGED <<call_vars, sys_vars>>

\* if not stats_7d.get('success'): raise ValueError
RaiseNoTimeSeries ==
    /\ pc = "check"
    /\ map_data.found
    /\ ~map_data.stats_7d.success
    /\ response' = [kind |-> "error", error |-> "No time-series data available"]
    /\ pc' = "raised"
    /\ UNCHANGED <<hybrid_vars, map_data, historical>>
    /\ UNCHANGED <<call_vars, sys_vars>>

\* Faulty variant: a series of exactly 50 samples is refused too.
InsufficientData_Inclusive(ccu) == NPoints(ccu) <= MinSamples

InsufficientData(ccu) == NPoints(ccu) < MinSamples

\* if len(ccu_series) < 50: raise ValueError
RaiseInsufficientData ==
    /\ pc = "check"
    /\ map_data.found
    /\ map_data.stats_7d.success
    /\ InsufficientData(map_data.stats_7d.stats)
    /\ response' = [kind |-> "error",
                    error |-> "Insufficient data for anomaly detection"]
    /\ pc' = "raised"
    /\ UNCHANGED <<hybrid_vars, map_data, historical>>
    /\ UNCHANGED <<call_vars, sys_vars>>

\* historical_ccu and len(historical_ccu) > len(ccu_series) * 2
UsingHistorical(hist, ccu) ==
    NPoints(hist.ccu) > 0 /\ NPoints(hist.ccu) > NPoints(ccu) * 2

\* _load_historical_ccu, the choice of the series to analyse, and the call
\* of the hybrid detector with the default min_votes and grouping_window.
CallHybrid ==
    /\ pc = "check"
    /\ map_data.found
    /\ map_data.stats_7d.success
    /\ ~InsufficientData(map_data.stats_7d.stats)
    /\ \E h \in HistoricalResults :
          /\ historical' = h
          /\ ccu_series' = IF UsingHistorical(h, map_data.stats_7d.stats)
                           THEN h.ccu ELSE map_data.stats_7d.stats
          /\ focus_recent' = UsingHistorical(h, map_data.stats_7d.stats)
    /\ recent_count' = NPoints(map_data.stats_7d.stats)
    /\ min_votes' = DefaultMinVotes
    /\ grouping_window' = DefaultGroupingWindow
    /\ pc' = "hybrid"
    /\ UNCHANGED <<detector_out, spike_events, result, map_data, response>>
    /\ UNCHANGED <<call_vars, sys_vars>>

\* dict.get(key, default)
Get(dict, key, default) == IF key \in DOMAIN dict THEN dict[key] ELSE default

\* The three handlers add, for data_source == 'local_cache', the
\* cache_warning (if not empty) and the collection_date to their result.
\* Faulty variant: the warning and the date are added whatever the source.
CacheFlags_Always(data_source, cache_warning, collection_date) ==
    [data_source |-> data_source, cache_warning |-> cache_warning,
     collection_date |-> collection_date]

CacheFlags(data_source, cache_warning, collection_date) ==
    IF data_source # "local_cache" THEN [data_source |-> data_source]
    ELSE IF cache_warning = ""
    THEN [data_source |-> data_source, collection_date |-> collection_date]
    ELSE [data_source |-> data_source, cache_warning |-> cache_warning,
          collection_date |-> collection_date]

\* map_data.get('_source', 'unknown'), .get('_cache_warning', ''),
\* .get('_collection_date', 'Unknown')
SourceFlags(map_data_) ==
    CacheFlags(Get(map_data_, "_source", "unknown"),
               Get(map_data_, "_cache_warning", ""),
               Get(map_data_, "_collection_date", "Unknown"))

RECURSIVE SumVotes(_, _)
SumVotes(details, k) ==
    IF k = 0 THEN 0 ELSE details[k].votes + SumVotes(details, k - 1)

\* Faulty variant: one score for every anomalous map, whatever the votes.
AnomalyScore_FlatPenalty(details) ==
    IF Len(details) > 0 THEN [num |-> 0 - 1, den |-> 2]
    ELSE [num |-> 1, den |-> 10]

\* anomaly_score as the rational num / den:
\* -0.5 - (avg_votes / 3) * 0.5 = -(3k + sum of votes) / 6k with k spikes,
\* and 0.1 without spikes.
AnomalyScore(details) ==
    IF Len(details) > 0
    THEN [num |-> 0 - (3 * Len(details) + SumVotes(details, Len(details))),
          den |-> 6 * Len(details)]
    ELSE [num |-> 1, den |-> 10]

\* the entry of spike_details built from one raw spike (timestamps left out)
ResponseSpike(spike) ==
    [timestamp_index |-> spike.peak_index,
     ccu |-> spike.peak_ccu,
     votes |-> spike.votes,
     methods_agreed |-> spike.methods_agreed]

\* spike_details[:10]
\* Faulty variant: every spike is listed.
FirstSpikes_All(details) ==
    [k \in 1..Len(details) |-> ResponseSpike(details[k])]

\* [...][:10]
FirstSpikes(details) ==
    [k \in 1..(IF Len(details) < MaxSpikeDetails THEN Len(details)
               ELSE MaxSpikeDetails) |-> ResponseSpike(details[k])]

\* hybrid_result.get('map_scale', {})
MapScaleOf(res) == Get(res, "map_scale", <<>>)

Interpretation(res) ==
    IF res.num_spikes > 0 THEN "spikes"
    ELSE IF Get(MapScaleOf(res), "is_small_map", FALSE)
            /\ Get(MapScaleOf(res), "max_ccu", 0) < SmallMapLimit
         THEN "small_map"
         ELSE "normal"

\* the result dict of detect_anomalies, from the fetched map, the dict of
\* the hybrid detector and the history used
AnomalyResponse(fetched, res, using_historical, hist) ==
    [kind |-> "result",
     map_name |-> fetched.map_data.name,
     anomaly_score |-> AnomalyScore(res.spike_details),
     is_anomalous |-> res.num_spikes > 0,
     num_spikes |-> res.num_spikes,
     spike_details |-> FirstSpikes(res.spike_details),
     interpretation |-> Interpretation(res),
     map_scale |-> MapScaleOf(res),
     using_historical_data |-> using_historical,
     historical_days |-> IF using_historical THEN hist.days ELSE 0]
    @@ CacheFlags(fetched.source,
                  Get(fetched, "cache_warning", ""),
                  Get(fetched, "collection_date", "Unknown"))

BuildResponse ==
    /\ pc = "hybrid_done"
    /\ response' = AnomalyResponse(map_data, result, focus_recent, historical)
    /\ pc' = "returned"
    /\ UNCHANGED <<hybrid_vars, map_data, historical>>
    /\ UNCHANGED <<call_vars, sys_vars>>

\* ----------------------------------------------- direct calls of the hybrid
\* A peak with a shoulder: one sample at the crest, another a little below
\* it, the rest empty.
ShoulderLevels == [shoulder |-> 90, crest |-> 100]

ShoulderSeries(n) ==
    {[i \in 0..(n - 1) |-> IF i = a THEN ShoulderLevels.shoulder
                           ELSE IF i = b THEN ShoulderLevels.crest ELSE 0] :
        <<a, b>> \in {ab \in (0..(n - 1)) \X (0..(n - 1)) : ab[1] # ab[2]}}

\* The series of n samples a direct call is given: every series over an
\* empty level and one high level, and the shouldered peaks.
SeriesOfLen(n) ==
    (UNION {[0..(n - 1) -> {0, h}] : h \in HighValues}) \cup ShoulderSeries(n)

\* Parameters of a direct call.  Without focus_recent: the default window
\* and every min_votes that can be met.  With focus_recent: the default
\* min_votes, the windows 0 (no merging) and 1, and as recent_count the
\* default 0 (which leaves every sample in view), the last sample alone,
\* the whole series and one more than the series holds.
HybridParams(n) ==
    {[min_votes |-> mv, grouping_window |-> DefaultGroupingWindow,
      focus_recent |-> FALSE, recent_count |-> 0] :
        mv \in 1..Cardinality(Methods)}
    \cup
    {[min_votes |-> DefaultMinVotes, grouping_window |-> gw,
      focus_recent |-> TRUE, recent_count |-> rc] :
        gw \in {0, 1}, rc \in {0, 1, n, n + 1}}

Init ==
    /\ pc = "hybrid"
    /\ \E n \in 1..MaxLen : ccu_series \in SeriesOfLen(n)
    /\ \E p \in HybridParams(NPoints(ccu_series)) :
          /\ min_votes = p.min_votes
          /\ grouping_window = p.grouping_window
          /\ focus_recent = p.focus_recent
          /\ recent_count = p.recent_count
    /\ detector_out = [m \in Methods |-> NoOutcome]
    /\ spike_events = <<>>
    /\ result = NoResult
    /\ map_data = NotFetched
    /\ historical = NoHistory
    /\ response = NoResponse
    /\ args = NoArgs
    /\ ret = NoReturn
    /\ SysIdle

Next == DetectAnomaliesHybrid

Spec == Init /\ [][Next]_vars

\* ------------------------------------------------- calls of detect_anomalies
InitDetect ==
    /\ pc = "fetch"
    /\ ccu_series = <<>>
    /\ min_votes = DefaultMinVotes
    /\ grouping_window = DefaultGroupingWindow
    /\ focus_recent = FALSE
    /\ recent_count = 0
    /\ detector_out = [m \in Methods |-> NoOutcome]
    /\ spike_events = <<>>
    /\ result = NoResult
    /\ map_data = NotFetched
    /\ historical = NoHistory
    /\ response = NoResponse
    /\ args = NoArgs
    /\ ret = NoReturn
    /\ SysIdle

NextDetect ==
    \/ FetchMap
    \/ RaiseNotFound
    \/ RaiseNoTimeSeries
    \/ RaiseInsufficientData
    \/ CallHybrid
    \/ DetectAnomaliesHybrid
    \/ BuildResponse

SpecDetect == InitDetect /\ [][NextDetect]_vars

\* ------------------------------------- calls of the hybrid on quiet series
\* Quiet series: every series over the levels of a map that peaks at 10
\* CCU (a 5-CCU bump included), and every series over an empty level and
\* 40 CCU.
QuietLevels == {{0, 5, 10}, {0, 40}}

QuietSeries(n) == UNION {[0..(n - 1) -> L] : L \in QuietLevels}

InitQuiet ==
    /\ pc = "hybrid"
    /\ \E n \in 1..MaxLen : ccu_series \in QuietSeries(n)
    /\ min_votes \in {1, DefaultMinVotes}
    /\ grouping_window = DefaultGroupingWindow
    /\ focus_recent = FALSE
    /\ recent_count = 0
    /\ detector_out = [m \in Methods |-> NoOutcome]
    /\ spike_events = <<>>
    /\ result = NoResult
    /\ map_data = NotFetched
    /\ historical = NoHistory
    /\ response = NoResponse
    /\ args = NoArgs
    /\ ret = NoReturn
    /\ SysIdle

NextQuiet == DetectAnomaliesHybrid

SpecQuiet == InitQuiet /\ [][NextQuiet]_vars

\* ------------------------------------------------ _calculate_trend_features
\* Rationals are records [num, den] with den > 0, not reduced.  volatility
\* is a square root; the model keeps its square, a rational, under the
\* name volatility_sq (volatility >= 0, so it is 0, or beyond a threshold,
\* exactly when its square is).
MinTrendSamples == 10

Zero == [num |-> 0, den |-> 1]

SumSquares(arr) ==
    SumRange([i \in DOMAIN arr |-> arr[i] * arr[i]], 0, NPoints(arr) - 1)

\* the features returned without data
ZeroFeatures ==
    [avg_ccu_7d |-> Zero, trend_slope |-> Zero,
     volatility_sq |-> Zero, recent_momentum |-> Zero]

\* stats_7d.get('data', {}).get('stats', [])
DataPoints(stats_7d) == Get(Get(stats_7d, "data", <<>>), "stats", <<>>)

\* not stats_7d or not stats_7d.get('success')
NoStats(stats_7d) ==
    DOMAIN stats_7d = {} \/ ~Get(stats_7d, "success", FALSE)

\* Faulty variant: five samples are enough.
TooFewForTrend_Five(data_points) == NPoints(data_points) < 5

\* len(data_points) < 10
TooFewForTrend(data_points) == NPoints(data_points) < MinTrendSamples

\* (late_avg - early_avg) / max(early_avg, 1) * 100 over the first and the
\* last len // 4 samples
TrendSlope(arr) ==
    LET n == NPoints(arr)
        quarter == n \div 4
        early == SumRange(arr, 0, quarter - 1)
        late == SumRange(arr, n - quarter, n - 1)
    IN  [num |-> 100 * (late - early), den |-> Max2(early, quarter)]

\* (np.std(arr) / max(np.mean(arr), 1)) squared:
\* std^2 = (n * sum of squares - sum^2) / n^2, max(mean, 1) = max(sum, n) / n
VolatilitySq(arr) ==
    LET n == NPoints(arr)
        sum == SumOf(arr)
    IN  [num |-> n * SumSquares(arr) - sum * sum,
         den |-> Max2(sum, n) * Max2(sum, n)]

\* (recent_avg - middle_avg) / max(middle_avg, 1) * 100, with the last
\* int(len * 0.2) samples against the slice of the same width (rounded
\* down to even) around the middle
RecentMomentum(arr) ==
    LET n == NPoints(arr)
        recent_pct == n \div 5
        half == recent_pct \div 2
        recent == SumRange(arr, n - recent_pct, n - 1)
        middle == SumRange(arr, n \div 2 - half, n \div 2 + half - 1)
        mlen == 2 * half
    IN  [num |-> 100 * (recent * mlen - middle * recent_pct),
         den |-> recent_pct * Max2(middle, mlen)]

TrendFeatures(stats_7d) ==
    IF NoStats(stats_7d) THEN ZeroFeatures
    ELSE IF TooFewForTrend(DataPoints(stats_7d)) THEN ZeroFeatures
    ELSE LET arr == DataPoints(stats_7d)
         IN  [avg_ccu_7d |-> [num |-> SumOf(arr), den |-> NPoints(arr)],
              trend_slope |-> TrendSlope(arr),
              volatility_sq |-> VolatilitySq(arr),
              recent_momentum |-> RecentMomentum(arr)]

\* One call of _calculate_trend_features.
CalculateTrendFeatures ==
    /\ pc = "trend"
    /\ ret' = [kind |-> "features", features |-> TrendFeatures(args.stats_7d)]
    /\ pc' = "returned"
    /\ UNCHANGED <<hybrid_vars, detect_vars, args, sys_vars>>

\* Longest series given to a direct call of _calculate_trend_features.
MaxTrendLen == 12

\* Series of n samples: empty or flat maps, a steady climb, and a flat map
\* with one high sample at its start or its end.
Climb(n) == [i \in 0..(n - 1) |-> i]

TrendSeries(n) ==
    {Flat(n, 0), Flat(n, 7), Climb(n)}
    \cup (IF n = 0 THEN {} ELSE {Spiked(n, 5, 0, 60), Spiked(n, 5, n - 1, 60)})

\* The stats_7d records a caller passes: none ({}), a record without data,
\* and records with a series, marked successful or not.
StatsRecords(series) ==
    {<<>>, [success |-> TRUE], [success |-> FALSE]}
    \cup {[success |-> ok, data |-> [stats |-> arr]] :
            ok \in BOOLEAN, arr \in series}

InitCall(at, inputs) ==
    /\ pc = at
    /\ args \in inputs
    /\ ret = NoReturn
    /\ SysIdle
    /\ ccu_series = <<>>
    /\ min_votes = DefaultMinVotes
    /\ grouping_window = DefaultGroupingWindow
    /\ focus_recent = FALSE
    /\ recent_count = 0
    /\ detector_out = [m \in Methods |-> NoOutcome]
    /\ spike_events = <<>>
    /\ result = NoResult
    /\ map_data = NotFetched
    /\ historical = NoHistory
    /\ response = NoResponse

InitTrend ==
    InitCall("trend",
             {[stats_7d |-> r] :
                r \in StatsRecords(UNION {TrendSeries(n) : n \in 0..MaxTrendLen})})

NextTrend == CalculateTrendFeatures

SpecTrend == InitTrend /\ [][NextTrend]_vars

\* ------------------------------------------------- the three detectors
\* The detectors are modelled as far as their source decides the outcome:
\* the guards of the source exactly, the library computations by the set
\* of index lists they may return.  For the local outlier factor the
\* computation is carried out on series whose CCU column is constant,
\* where the scaled points lie evenly spaced on a line: distances are
\* counted in sample spacings (the factor is a ratio of distances, so the
\* spacing cancels), densities are kept in 1/100000 and factors in 1/1000,
\* rounded down.
StlPeriod == 48
LofNeighbors == 20
LofContaminationPct == 5

Abs(x) == IF x < 0 THEN 0 - x ELSE x

IsConstant(arr) == \A i, j \in DOMAIN arr : arr[i] = arr[j]

\* _detect_anomalies_stl: [] below two periods, else the indices whose
\* residual lies above Q3 + 1.5 * IQR.
StlOutcomes(arr) ==
    IF NPoints(arr) < StlPeriod * 2 THEN {{}} ELSE FlaggedSets(NPoints(arr))

\* find_peaks: the middle of every plateau that is higher than the samples
\* on both of its sides.
LocalMaxima(arr) ==
    LET n == NPoints(arr)
    IN  {(l + r) \div 2 :
            <<l, r>> \in {lr \in (1..(n - 2)) \X (1..(n - 2)) :
                            /\ arr[lr[1] - 1] < arr[lr[1]]
                            /\ lr[1] <= lr[2]
                            /\ arr[lr[2] + 1] < arr[lr[2]]
                            /\ \A i \in lr[1]..lr[2] : arr[i] = arr[lr[1]]}}

\* _detect_anomalies_peaks: [] without peaks, else the peaks that pass the
\* distance, prominence and percentile filters.
PeaksOutcomes(arr) ==
    IF LocalMaxima(arr) = {} THEN {{}} ELSE SUBSET LocalMaxima(arr)

\* LocalOutlierFactor: n_neighbors_ = max(1, min(n_neighbors, n_samples - 1))
NeighborsUsed(n) ==
    Max2(1, IF LofNeighbors < n - 1 THEN LofNeighbors ELSE n - 1)

\* the number of other samples within r spacings of sample i
Within(n, i, r) ==
    (IF i < r THEN i ELSE r) + (IF n - 1 - i < r THEN n - 1 - i ELSE r)

\* the distance of sample i to its k-th nearest other sample
KDistance(n, i) ==
    CHOOSE r \in 1..(n - 1) :
        /\ Within(n, i, r) >= NeighborsUsed(n)
        /\ Within(n, i, r - 1) < NeighborsUsed(n)

\* the k nearest other samples of sample i
Neighbors(n, i) ==
    LET kd == KDistance(n, i)
    IN  {j \in 0..(n - 1) : j # i /\ Abs(i - j) <= kd}

\* the sum over the neighbours o of i of the reachability distance
\* max(k-distance of o, distance from i to o)
ReachSum(n, i) ==
    LET nb == AscendingFrom(Neighbors(n, i), 0, n - 1)
    IN  SumRange([p \in 1..Len(nb) |->
                     Max2(KDistance(n, nb[p]), Abs(i - nb[p]))], 1, Len(nb))

\* local reachability density of sample i, 1 / mean, in 1/100000
Lrd(n, i) == (NeighborsUsed(n) * 100000) \div ReachSum(n, i)

\* negative_outlier_factor_ of sample i, in 1/1000: minus the mean over
\* the neighbours o of i of lrd(o) / lrd(i)
NegativeOutlierFactor(n, i) ==
    LET nb == AscendingFrom(Neighbors(n, i), 0, n - 1)
        total == SumRange([p \in 1..Len(nb) |-> Lrd(n, nb[p])], 1, Len(nb))
    IN  0 - ((total * 1000) \div (NeighborsUsed(n) * Lrd(n, i)))

\* the samples of a series whose CCU column is constant, each with its
\* factor
Scored(n) == {<<i, NegativeOutlierFactor(n, i)>> : i \in 0..(n - 1)}

\* the r-th smallest factor (r from 0)
SortedAt(scored, r) ==
    CHOOSE v \in {p[2] : p \in scored} :
        /\ Cardinality({p \in scored : p[2] < v}) <= r
        /\ Cardinality({p \in scored : p[2] <= v}) > r

\* np.percentile(factors, pct) times 100, by linear interpolation
Percentile100(scored, pct) ==
    LET n == Cardinality(scored)
        lo == (pct * (n - 1)) \div 100
        rem == (pct * (n - 1)) % 100
        hi == IF lo + 1 < n THEN lo + 1 ELSE lo
    IN  100 * SortedAt(scored, lo)
          + rem * (SortedAt(scored, hi) - SortedAt(scored, lo))

\* labels == -1: the samples whose factor is below the contamination
\* percentile of the factors
LofFlags(n) ==
    LET scored == Scored(n)
        offset100 == Percentile100(scored, LofContaminationPct)
    IN  {p[1] : p \in {q \in scored : 100 * q[2] < offset100}}

\* _detect_anomalies_lof: the scaler or the neighbour query raise below
\* two samples; a series that is not constant may get any labels.
LofOutcomes(arr) ==
    IF NPoints(arr) < 2 THEN {[raised |-> TRUE, indices |-> {}]}
    ELSE IF IsConstant(arr)
         THEN {[raised |-> FALSE, indices |-> LofFlags(NPoints(arr))]}
         ELSE {[raised |-> FALSE, indices |-> f] :
                 f \in FlaggedSets(NPoints(arr))}

Returned(method, outcome) ==
    IF outcome.raised THEN [kind |-> "raised", method |-> method]
    ELSE [kind |-> "flags", method |-> method, indices |-> outcome.indices]

DetectStl ==
    /\ pc = "stl"
    /\ \E f \in StlOutcomes(args.ccu_series) :
          ret' = Returned("STL", [raised |-> FALSE, indices |-> f])
    /\ pc' = "returned"
    /\ UNCHANGED <<hybrid_vars, detect_vars, args, sys_vars>>

DetectPeaks ==
    /\ pc = "peaks"
    /\ \E f \in PeaksOutcomes(args.ccu_series) :
          ret' = Returned("peak_prominence", [raised |-> FALSE, indices |-> f])
    /\ pc' = "returned"
    /\ UNCHANGED <<hybrid_vars, detect_vars, args, sys_vars>>

DetectLof ==
    /\ pc = "lof"
    /\ \E o \in LofOutcomes(args.ccu_series) : ret' = Returned("LOF", o)
    /\ pc' = "returned"
    /\ UNCHANGED <<hybrid_vars, detect_vars, args, sys_vars>>

\* Constant series of the lengths detect_anomalies accepts (50 samples and
\* more), still below the two periods the seasonal detector asks for.
FlatLengths == 50..55
FlatValues == {0, 1, 5, 100, 300}

InitFlat ==
    \E at \in {"trend", "stl", "peaks", "lof"} :
        InitCall(at,
                 {[ccu_series |-> Flat(n, v),
                   stats_7d |-> [success |-> TRUE,
                                 data |-> [stats |-> Flat(n, v)]]] :
                     n \in FlatLengths, v \in FlatValues})

NextFlat ==
    \/ CalculateTrendFeatures
    \/ DetectStl
    \/ DetectPeaks
    \/ DetectLof

SpecFlat == InitFlat /\ [][NextFlat]_vars

\* ------------------------------------------------------ predict_future_ccu
ForecastDays == 7
DefaultMae == 46

\* int(x) of the rational num / den (den > 0): towards zero
IntOf(num, den) ==
    IF num >= 0 THEN num \div den ELSE 0 - ((0 - num) \div den)

\* a < b, a <= b for rationals with positive denominators
Less(a, b) == a.num * b.den < b.num * a.den
AtMost(a, b) == a.num * b.den <= b.num * a.den
Whole(k) == [num |-> k, den |-> 1]

\* _extract_future_ccu_features, as far as the forecast reads it
FutureCcuFeatures(map_data_) ==
    LET data == map_data_.map_data
        ts == TrendFeatures(Get(map_data_, "stats_7d", <<>>))
    IN  [creator_followers |->
            Get(Get(data, "creator", <<>>), "lookup_follower_count", 0),
         baseline_ccu |-> ts.avg_ccu_7d,
         trend_slope |-> ts.trend_slope,
         volatility_sq |-> ts.volatility_sq,
         recent_momentum |-> ts.recent_momentum,
         current_ccu |-> Get(data, "lastSyncCcu", 0)]

\* max(0, int(baseline_ccu * (1 + trend_slope / 100 / 7 * day)))
PredictedDayCcu(baseline_ccu, trend_slope, day) ==
    LET num == baseline_ccu.num
                 * (100 * ForecastDays * trend_slope.den + trend_slope.num * day)
        den == baseline_ccu.den * 100 * ForecastDays * trend_slope.den
    IN  Max2(0, IntOf(num, den))

\* (predicted - baseline_ccu) / baseline_ccu * 100 if baseline_ccu > 0 else 0
ChangePct(predicted, baseline_ccu) ==
    IF baseline_ccu.num > 0
    THEN [num |-> 100 * (predicted * baseline_ccu.den - baseline_ccu.num),
          den |-> baseline_ccu.num]
    ELSE Zero

\* Faulty variant: the lower bound is not floored at zero.
ConfidenceLower_Unfloored(predicted, mae) ==
    IntOf(2 * predicted * mae.den - 3 * mae.num, 2 * mae.den)

\* max(0, int(predicted_day_ccu - mae * 1.5))
ConfidenceLower(predicted, mae) ==
    Max2(0, IntOf(2 * predicted * mae.den - 3 * mae.num, 2 * mae.den))

\* int(predicted_day_ccu + mae * 1.5)
ConfidenceUpper(predicted, mae) ==
    IntOf(2 * predicted * mae.den + 3 * mae.num, 2 * mae.den)

\* round(x, 1) of a rational of either sign, in tenths
RoundTenthsSigned(x) ==
    IF x.num >= 0 THEN RoundTenths(x.num, x.den)
    ELSE 0 - RoundTenths(0 - x.num, x.den)

DailyForecast(features, mae) ==
    [day \in 1..ForecastDays |->
        LET predicted ==
                PredictedDayCcu(features.baseline_ccu, features.trend_slope, day)
        IN  [day |-> day,
             predicted_ccu |-> predicted,
             change_from_baseline |->
                 RoundTenthsSigned(ChangePct(predicted, features.baseline_ccu)),
             confidence_lower |-> ConfidenceLower(predicted, mae),
             confidence_upper |-> ConfidenceUpper(predicted, mae)]]

\* Faulty variant: the boundaries belong to Growing and Declining.
TrendOf_Inclusive(total_change_pct) ==
    IF AtMost(Whole(10), total_change_pct) THEN "Growing"
    ELSE IF AtMost(total_change_pct, Whole(0 - 10)) THEN "Declining"
    ELSE "Stable"

TrendOf(total_change_pct) ==
    IF Less(Whole(10), total_change_pct) THEN "Growing"
    ELSE IF Less(total_change_pct, Whole(0 - 10)) THEN "Declining"
    ELSE "Stable"

TrendStrength(total_change_pct) ==
    IF Less(Whole(10), total_change_pct)
    THEN (IF Less(Whole(25), total_change_pct) THEN "Strong" ELSE "Moderate")
    ELSE IF Less(total_change_pct, Whole(0 - 10))
    THEN (IF Less(total_change_pct, Whole(0 - 25)) THEN "Strong"
          ELSE "Moderate")
    ELSE "Weak"

\* "High" if abs(total_change_pct) < 30 else "Medium"
ForecastConfidence(total_change_pct) ==
    IF Less(Whole(0 - 30), total_change_pct) /\ Less(total_change_pct, Whole(30))
    THEN "High" ELSE "Medium"

\* self.future_ccu_metadata.get('mae', 46)
MaeOf(metadata) == Get(metadata, "mae", Whole(DefaultMae))

\* ------------------------------------------------ _analyze_prediction_factors
\* Importances are kept in thousandths (0.664 is 664); the percentage of the
\* source is a tenth of that.  Texts are left out: a factor is its feature
\* name, its importance and its direction.
DefaultImportances ==
    [baseline_ccu |-> 664, trend_slope |-> 179, recent_momentum |-> 98,
     creator_followers |-> 17, volatility |-> 13]

ImportanceOf(feature_importances, feature) ==
    Get(feature_importances, feature, DefaultImportances[feature])

Factor(feature_importances, feature, direction) ==
    [feature |-> feature,
     importance |-> ImportanceOf(feature_importances, feature),
     direction |-> direction]

BaselineDirection(baseline) ==
    IF Less(Whole(300), baseline) THEN "positive"
    ELSE IF Less(Whole(100), baseline) THEN "neutral"
    ELSE "negative"

SlopeDirection(trend_slope) ==
    IF Less(Whole(5), trend_slope) THEN "positive"
    ELSE IF Less(trend_slope, Whole(0 - 5)) THEN "negative"
    ELSE "neutral"

MomentumDirection(momentum) ==
    IF momentum.num > 0 THEN "positive"
    ELSE IF momentum.num < 0 THEN "negative"
    ELSE "neutral"

FollowersDirection(followers) ==
    IF followers > 10000 THEN "positive"
    ELSE IF followers > 1000 THEN "neutral"
    ELSE "negative"

\* volatility > 0.5 and volatility < 0.2, on the square
VolatilityDirection(volatility_sq) ==
    IF Less([num |-> 1, den |-> 4], volatility_sq) THEN "negative"
    ELSE IF Less(volatility_sq, [num |-> 1, den |-> 25]) THEN "positive"
    ELSE "neutral"

\* the baseline factor is appended only if baseline > 0
BaselineFactor(features, feature_importances) ==
    IF features.baseline_ccu.num > 0
    THEN <<Factor(feature_importances, "baseline_ccu",
                  BaselineDirection(features.baseline_ccu))>>
    ELSE <<>>

\* factor_contributions before the sort
Contributions(features, feature_importances, trend_slope) ==
    BaselineFactor(features, feature_importances)
    \o <<Factor(feature_importances, "trend_slope",
                SlopeDirection(trend_slope)),
         Factor(feature_importances, "recent_momentum",
                MomentumDirection(features.recent_momentum)),
         Factor(feature_importances, "creator_followers",
                FollowersDirection(features.creator_followers)),
         Factor(feature_importances, "volatility",
                VolatilityDirection(features.volatility_sq))>>

\* list.sort(key=lambda x: -x['importance']): stable, so a factor goes
\* behind the factors of the same importance that were appended before it
RECURSIVE InsertByImportance(_, _)
InsertByImportance(sorted, factor) ==
    IF sorted = <<>> THEN <<factor>>
    ELSE IF Head(sorted).importance >= factor.importance
    THEN <<Head(sorted)>> \o InsertByImportance(Tail(sorted), factor)
    ELSE <<factor>> \o sorted

RECURSIVE SortByImportance(_)
SortByImportance(factors) ==
    IF factors = <<>> THEN <<>>
    ELSE InsertByImportance(
             SortByImportance(SubSeq(factors, 1, Len(factors) - 1)),
             factors[Len(factors)])

\* the first factor that is not neutral, the first factor if there is none
PrimaryDriver(factor_contributions) ==
    LET decided == {i \in DOMAIN factor_contributions :
                        factor_contributions[i].direction # "neutral"}
    IN  IF decided = {} THEN factor_contributions[1]
        ELSE factor_contributions[CHOOSE i \in decided :
                                      \A j \in decided : i <= j]

FeaturesWith(factor_contributions, direction) ==
    LET Keep(f) == f.direction = direction
    IN  [i \in DOMAIN SelectSeq(factor_contributions, Keep) |->
            SelectSeq(factor_contributions, Keep)[i].feature]

PredictionFactors(features, feature_importances, trend_slope) ==
    LET factor_contributions ==
            SortByImportance(
                Contributions(features, feature_importances, trend_slope))
        primary_driver == PrimaryDriver(factor_contributions)
    IN  [primary_feature |-> primary_driver.feature,
         primary_importance |-> primary_driver.importance,
         all_factors |-> factor_contributions,
         positive_factors |-> FeaturesWith(factor_contributions, "positive"),
         negative_factors |-> FeaturesWith(factor_contributions, "negative")]

\* One call of _analyze_prediction_factors.
AnalyzePredictionFactors ==
    /\ pc = "factors"
    /\ ret' = [kind |-> "factors",
               factors |-> PredictionFactors(args.features,
                                             args.feature_importances,
                                             args.trend_slope)]
    /\ pc' = "returned"
    /\ UNCHANGED <<hybrid_vars, detect_vars, args, sys_vars>>

\* Feature bundles on both sides of every threshold of the analysis.
FactorFeatures ==
    {[baseline_ccu |-> Whole(b), trend_slope |-> Whole(s),
      recent_momentum |-> Whole(m), creator_followers |-> f,
      volatility_sq |-> v, current_ccu |-> 0] :
        b \in {0, 100, 101, 300, 301}, s \in {0 - 6, 0 - 5, 0, 5, 6},
        m \in {0 - 1, 0, 1}, f \in {1000, 1001, 10000, 10001},
        v \in {Zero, [num |-> 1, den |-> 25], [num |-> 1, den |-> 4],
               [num |-> 9, den |-> 25]}}

\* feature_importances of the metadata: absent, all equal, and with the
\* followers ahead of the momentum
FactorImportances ==
    {<<>>,
     [baseline_ccu |-> 200, trend_slope |-> 200, recent_momentum |-> 200,
      creator_followers |-> 200, volatility |-> 200],
     [creator_followers |-> 300, volatility |-> 98]}

InitFactors ==
    InitCall("factors",
             {[features |-> f, feature_importances |-> fi,
               trend_slope |-> f.trend_slope] :
                f \in FactorFeatures, fi \in FactorImportances})

NextFactors == AnalyzePredictionFactors

SpecFactors == InitFactors /\ [][NextFactors]_vars

\* ------------------------------------------- predict_future_ccu, the call
\* The forecast of one map.  key_insights, map_features and model_metrics
\* are texts and copies of inputs and are left out of the result; float
\* rounding is not modelled, every quantity is an exact rational.
Forecast(map_data_, metadata) ==
    LET features == FutureCcuFeatures(map_data_)
        baseline_ccu == features.baseline_ccu
        daily_forecast == DailyForecast(features, MaeOf(metadata))
        predicted_ccu_7d == daily_forecast[ForecastDays].predicted_ccu
        total_change_pct == ChangePct(predicted_ccu_7d, baseline_ccu)
    IN  [current_ccu |-> features.current_ccu,
         baseline_ccu |-> RoundTenths(baseline_ccu.num, baseline_ccu.den),
         predicted_ccu_7d |-> predicted_ccu_7d,
         daily_forecast |-> daily_forecast,
         trend |-> TrendOf(total_change_pct),
         trend_strength |-> TrendStrength(total_change_pct),
         confidence |-> ForecastConfidence(total_change_pct),
         prediction_factors |->
             PredictionFactors(features,
                               Get(metadata, "feature_importances", <<>>),
                               features.trend_slope)]
        @@ SourceFlags(map_data_)

Raised(error) == [kind |-> "raise", error |-> error]

\* Faulty variant: without the model the call goes on and answers.
PredictWithoutModel_GoesOn ==
    /\ pc = "predict"
    /\ ~args.future_ccu_model
    /\ DOMAIN args.fetched # {}
    /\ ret' = [kind |-> "forecast",
               result |-> Forecast(args.fetched, args.future_ccu_metadata)]
    /\ pc' = "returned"
    /\ UNCHANGED <<hybrid_vars, detect_vars, args, sys_vars>>

\* if not self.future_ccu_model: raise ValueError
PredictWithoutModel ==
    /\ pc = "predict"
    /\ ~args.future_ccu_model
    /\ ret' = Raised("Future CCU model not loaded")
    /\ pc' = "returned"
    /\ UNCHANGED <<hybrid_vars, detect_vars, args, sys_vars>>

\* if not map_data: raise ValueError
PredictUnknownMap ==
    /\ pc = "predict"
    /\ args.future_ccu_model
    /\ DOMAIN args.fetched = {}
    /\ ret' = Raised("Map not found")
    /\ pc' = "returned"
    /\ UNCHANGED <<hybrid_vars, detect_vars, args, sys_vars>>

\* One successful call of predict_future_ccu.
PredictFutureCcu ==
    /\ pc = "predict"
    /\ args.future_ccu_model
    /\ DOMAIN args.fetched # {}
    /\ ret' = [kind |-> "forecast",
               result |-> Forecast(args.fetched, args.future_ccu_metadata)]
    /\ pc' = "returned"
    /\ UNCHANGED <<hybrid_vars, detect_vars, args, sys_vars>>

\* A week of samples in four equal parts at the levels a, m1, m2, d: the
\* baseline is their mean and the slope 100 * (d - a) / max(a, 1).
QuarterLen == 3
Quartered(a, m1, m2, d) ==
    [i \in 0..(4 * QuarterLen - 1) |->
        IF i < QuarterLen THEN a
        ELSE IF i < 2 * QuarterLen THEN m1
        ELSE IF i < 3 * QuarterLen THEN m2
        ELSE d]

EarlyLevels == {0, 10, 100}
LateLevels == {0, 10, 74, 75, 89, 90, 100, 110, 111, 125, 126, 130}
MiddleLevels == {1, 11, 35, 37, 44, 45, 50, 55, 56, 62, 63}

ForecastSeries ==
    {Quartered(a, m1, m1 + step, d) :
        a \in EarlyLevels, m1 \in MiddleLevels, step \in {0, 1},
        d \in LateLevels}
    \cup {Flat(MinTrendSamples - 1, 100)}

\* what fetch_map_from_api answers: nothing, or a map with its week
FetchedMaps ==
    {<<>>}
    \cup {[map_data |-> [name |-> "map", lastSyncCcu |-> 120,
                         creator |-> [lookup_follower_count |-> 5000]],
           stats_7d |-> [success |-> TRUE, data |-> [stats |-> arr]],
           _source |-> "live_api"] : arr \in ForecastSeries}
    \cup {[map_data |-> [name |-> "map"], stats_7d |-> <<>>,
           _source |-> "local_cache", _cache_warning |-> "may be outdated",
           _collection_date |-> "October 30"]}

\* future_ccu_metadata.json: with an MAE of 0, 45.3 or 200, or without one
ForecastMetadata ==
    {<<>>} \cup {[mae |-> m] : m \in {Zero, [num |-> 453, den |-> 10],
                                      Whole(200)}}

InitForecast ==
    InitCall("predict",
             {[future_ccu_model |-> loaded, future_ccu_metadata |-> md,
               fetched |-> f] :
                loaded \in BOOLEAN, md \in ForecastMetadata,
                f \in FetchedMaps})

NextForecast == PredictWithoutModel \/ PredictUnknownMap \/ PredictFutureCcu

SpecForecast == InitForecast /\ [][NextForecast]_vars

\* -------------------------------------------------------- predict_discovery
MinDiscoverySamples == 50
GrowthWindow == 24
MaxListed == 5

\* ccu_growth of _extract_discovery_features:
\* (mean of the last 24 - mean of the first 24) / max(mean of the first 24, 1)
\* on 50 samples or more, 0 otherwise
CcuGrowth(ccu_values) ==
    LET n == NPoints(ccu_values)
        first == SumRange(ccu_values, 0, GrowthWindow - 1)
        last == SumRange(ccu_values, n - GrowthWindow, n - 1)
    IN  IF n >= MinDiscoverySamples
        THEN [num |-> last - first, den |-> Max2(first, GrowthWindow)]
        ELSE Zero

\* _extract_discovery_features, as far as the labels and the factors read it
DiscoveryFeatures(map_data_) ==
    LET data == map_data_.map_data
        stats_7d == Get(map_data_, "stats_7d", <<>>)
    IN  [xp_enabled |-> IF Get(data, "xp_enabled", FALSE) THEN 1 ELSE 0,
         creator_followers |->
            Get(Get(data, "creator", <<>>), "lookup_follower_count", 0),
         avg_ccu_7d |-> TrendFeatures(stats_7d).avg_ccu_7d,
         ccu_growth_rate |-> CcuGrowth(DataPoints(stats_7d)),
         in_discovery |-> IF Get(data, "state", "") = "in_discovery"
                          THEN 1 ELSE 0]

\* "YES" if probability > 50 else "NO"
DiscoveryPrediction(probability) ==
    IF Less(Whole(50), probability) THEN "YES" ELSE "NO"

\* abs(probability - 50) > k
FartherThan(probability, k) ==
    Less(Whole(50 + k), probability) \/ Less(probability, Whole(50 - k))

\* Faulty variant: the boundaries 20 and 80 count as High, 35 and 65 as Medium.
DiscoveryConfidence_Inclusive(probability) ==
    IF ~(Less(Whole(20), probability) /\ Less(probability, Whole(80)))
    THEN "High"
    ELSE IF ~(Less(Whole(35), probability) /\ Less(probability, Whole(65)))
    THEN "Medium"
    ELSE "Low"

DiscoveryConfidence(probability) ==
    IF FartherThan(probability, 30) THEN "High"
    ELSE IF FartherThan(probability, 15) THEN "Medium"
    ELSE "Low"

\* lst[:5]
FirstListed(lst) ==
    SubSeq(lst, 1, IF Len(lst) < MaxListed THEN Len(lst) ELSE MaxListed)

When(cond, entry) == IF cond THEN <<entry>> ELSE <<>>

\* Faulty variant: an average of 150 up to 300 counts as low.
LowCcu_Below300(avg_ccu_7d) == Less(avg_ccu_7d, Whole(300))

\* features['avg_ccu_7d'] < 150
LowCcu(avg_ccu_7d) == Less(avg_ccu_7d, Whole(150))

\* _analyze_discovery_factors; an entry is the name of its factor, the
\* text around it is left out
DiscoveryFactors(features) ==
    LET strong_ccu == AtMost(Whole(300), features.avg_ccu_7d)
        growing == Less([num |-> 1, den |-> 10], features.ccu_growth_rate)
        shrinking == Less(features.ccu_growth_rate, [num |-> 0 - 1, den |-> 20])
        xp == features.xp_enabled # 0
        followed == features.creator_followers > 10000
    IN  [strengths |->
            FirstListed(When(strong_ccu, "CCU") \o When(growing, "growth")
                        \o When(xp, "XP") \o When(followed, "followers")),
         weaknesses |->
            FirstListed(
                When(~strong_ccu /\ LowCcu(features.avg_ccu_7d), "CCU")
                \o When(~growing /\ shrinking, "growth")
                \o When(~xp, "XP")
                \o When(~followed /\ features.creator_followers < 1000,
                        "followers"))]

\* The answer for one map.  probability is what the classifier gives for
\* the map, in percent; recommendations are left out.
Discovery(map_data_, probability) ==
    LET features == DiscoveryFeatures(map_data_)
        factors == DiscoveryFactors(features)
    IN  [discovery_probability |->
            RoundTenths(probability.num, probability.den),
         prediction |-> DiscoveryPrediction(probability),
         confidence |-> DiscoveryConfidence(probability),
         current_status |->
            [avg_ccu_7d |-> features.avg_ccu_7d,
             growth_rate |->
                RoundTenthsSigned([num |-> 100 * features.ccu_growth_rate.num,
                                   den |-> features.ccu_growth_rate.den]),
             creator_followers |-> features.creator_followers,
             in_discovery |-> features.in_discovery = 1],
         strengths |-> factors.strengths,
         weaknesses |-> factors.weaknesses]
        @@ SourceFlags(map_data_)

\* if not self.discovery_model: raise ValueError
DiscoveryWithoutModel ==
    /\ pc = "discovery"
    /\ ~args.discovery_model
    /\ ret' = Raised("Discovery predictor not loaded")
    /\ pc' = "returned"
    /\ UNCHANGED <<hybrid_vars, detect_vars, args, sys_vars>>

\* if not map_data: raise ValueError
DiscoveryUnknownMap ==
    /\ pc = "discovery"
    /\ args.discovery_model
    /\ DOMAIN args.fetched = {}
    /\ ret' = Raised("Map not found")
    /\ pc' = "returned"
    /\ UNCHANGED <<hybrid_vars, detect_vars, args, sys_vars>>

\* One successful call of predict_discovery.
PredictDiscovery ==
    /\ pc = "discovery"
    /\ args.discovery_model
    /\ DOMAIN args.fetched # {}
    /\ ret' = [kind |-> "discovery",
               result |-> Discovery(args.fetched, args.probability)]
    /\ pc' = "returned"
    /\ UNCHANGED <<hybrid_vars, detect_vars, args, sys_vars>>

\* A week of 50 samples: 24 at the level first, 2 at the level mid, 24 at
\* the level last.
Week(first, mid, last) ==
    [i \in 0..(MinDiscoverySamples - 1) |->
        IF i < GrowthWindow THEN first
        ELSE IF i < MinDiscoverySamples - GrowthWindow THEN mid
        ELSE last]

DiscoverySeries ==
    {Week(first, mid, last) :
        first \in {100, 150, 300}, mid \in {149, 150, 299, 300},
        last \in {94, 95, 100, 110, 111, 150, 300}}
    \cup {Flat(MinDiscoverySamples - 1, 400), Flat(MinTrendSamples - 1, 400)}

DiscoveryMaps ==
    {<<>>}
    \cup {[map_data |-> [name |-> "map", xp_enabled |-> xp,
                         creator |-> [lookup_follower_count |-> followers]],
           stats_7d |-> [success |-> TRUE, data |-> [stats |-> arr]],
           _source |-> "live_api"] :
            xp \in BOOLEAN, followers \in {999, 1000, 10000, 10001},
            arr \in DiscoverySeries}
    \cup {[map_data |-> [name |-> "map"], stats_7d |-> <<>>,
           _source |-> "local_cache", _cache_warning |-> "may be outdated",
           _collection_date |-> "October 30"]}

\* probabilities of the classifier, in percent: the ends, and the
\* boundaries of the labels with a hundredth on either side
Probabilities ==
    {[num |-> 100 * b + e, den |-> 100] :
        b \in {20, 35, 50, 65, 80}, e \in {0 - 1, 0, 1}}
    \cup {Whole(0), Whole(100)}

InitDiscovery ==
    InitCall("discovery",
             {[discovery_model |-> loaded, fetched |-> f, probability |-> p] :
                loaded \in BOOLEAN, f \in DiscoveryMaps, p \in Probabilities})

NextDiscovery == DiscoveryWithoutModel \/ DiscoveryUnknownMap \/ PredictDiscovery

SpecDiscovery == InitDiscovery /\ [][NextDiscovery]_vars

\* ------------------------------------------------------ fetch_map_from_api
\* (fncreate_service.py)  A call suspends at each of its two requests; what
\* the live API answers is the environment's choice.  The local snapshot
\* is read in the same step in which the live request fails: there is no
\* await between the failure and load_map_from_local.
None == <<>>

\* "map_" + map_code with "_" for "-", ".json"
FileName(map_code) == <<"map", map_code, "json">>

Unreadable == [unreadable |-> TRUE]

\* load_map_from_local: None without the file or on any exception, else
\* the snapshot tagged as cached.  mtime is the formatted date of the
\* file; the warning text is kept without the date it repeats.
LoadMapFromLocal(disk, map_code) ==
    LET name == FileName(map_code)
    IN  IF name \notin DOMAIN disk THEN None
        ELSE IF disk[name] = Unreadable THEN None
        ELSE [map_data |-> Get(disk[name].data, "map_data", <<>>),
              stats_7d |-> Get(disk[name].data, "stats_7d", <<>>),
              _source |-> "local_cache",
              _cache_warning |-> "may be outdated",
              _collection_date |-> disk[name].mtime]

\* the dict returned when both requests succeeded
LiveResult(map_data_, stats_7d) ==
    [map_data |-> map_data_, stats_7d |-> stats_7d, _source |-> "live_api"]

\* r.raise_for_status() and r.json(): the body of a 200 answer that parses,
\* an exception otherwise
Failed(answer) ==
    IF answer.kind = "exception" THEN TRUE
    ELSE answer.status >= 400 \/ ~answer.parses

\* Faulty variant: the success field of the details is not looked at.
Succeeded_IgnoresBody(answer) == ~Failed(answer)

\* the answer arrived, and its body says success
Succeeded(answer) ==
    IF Failed(answer) THEN FALSE ELSE Get(answer.body, "success", FALSE)

ReadLocal == [op |-> "read_local"]

\* GET /api/maps/{map_code}: the details arrived with success = true.
GetDetails ==
    /\ pc = "get_details"
    /\ \E answer \in args.live.details :
          /\ Succeeded(answer)
          /\ io_log' = Append(io_log, [op |-> "GET", answer |-> answer])
          /\ tasks' = <<[map_data |-> Get(answer.body, "data", <<>>)]>>
    /\ pc' = "post_stats"
    /\ UNCHANGED <<hybrid_vars, detect_vars, call_vars, files, chat_session>>

\* GET /api/maps/{map_code} failed (status, exception, success = false):
\* load_map_from_local answers the call.
GetDetailsFailed ==
    /\ pc = "get_details"
    /\ \E answer \in args.live.details :
          /\ ~Succeeded(answer)
          /\ io_log' = io_log \o <<[op |-> "GET", answer |-> answer],
                                   ReadLocal>>
    /\ ret' = [kind |-> "fetched",
               value |-> LoadMapFromLocal(files, args.map_code)]
    /\ pc' = "returned"
    /\ UNCHANGED <<hybrid_vars, detect_vars, args, files, tasks, chat_session>>

\* POST /api/maps/{map_code}/v2/stats answered: the live result.  The
\* success field of the stats is not looked at here.
PostStats ==
    /\ pc = "post_stats"
    /\ \E answer \in args.live.stats :
          /\ ~Failed(answer)
          /\ io_log' = Append(io_log, [op |-> "POST", answer |-> answer])
          /\ ret' = [kind |-> "fetched",
                     value |-> LiveResult(tasks[1].map_data, answer.body)]
    /\ pc' = "returned"
    /\ UNCHANGED <<hybrid_vars, detect_vars, args, files, tasks, chat_session>>

\* Faulty variant: when the stats fail, the live details are kept and only
\* the stats are taken from the snapshot.
PostStatsFailed_KeepsDetails ==
    /\ pc = "post_stats"
    /\ \E answer \in args.live.stats :
          /\ Failed(answer)
          /\ io_log' = io_log \o <<[op |-> "POST", answer |-> answer],
                                   ReadLocal>>
    /\ ret' = [kind |-> "fetched",
               value |->
                  LET stored == LoadMapFromLocal(files, args.map_code)
                  IN  IF stored = None THEN None
                      ELSE [stored EXCEPT !.map_data = tasks[1].map_data]]
    /\ pc' = "returned"
    /\ UNCHANGED <<hybrid_vars, detect_vars, args, files, tasks, chat_session>>

\* POST .../v2/stats failed: load_map_from_local answers the call.
PostStatsFailed ==
    /\ pc = "post_stats"
    /\ \E answer \in args.live.stats :
          /\ Failed(answer)
          /\ io_log' = io_log \o <<[op |-> "POST", answer |-> answer],
                                   ReadLocal>>
    /\ ret' = [kind |-> "fetched",
               value |-> LoadMapFromLocal(files, args.map_code)]
    /\ pc' = "returned"
    /\ UNCHANGED <<hybrid_vars, detect_vars, args, files, tasks, chat_session>>

\* What a request may be answered with.
Answered(status, body) ==
    [kind |-> "response", status |-> status, parses |-> TRUE, body |-> body]

Garbled(status) ==
    [kind |-> "response", status |-> status, parses |-> FALSE, body |-> <<>>]

Thrown == [kind |-> "exception"]

LiveWeek == Flat(MinTrendSamples, 300)
StoredWeek == Flat(MinTrendSamples, 100)

LiveDetails == [name |-> "live map", lastSyncCcu |-> 300]
StoredDetails == [name |-> "stored map", lastSyncCcu |-> 100]

LiveStats(ok) == [success |-> ok, data |-> [stats |-> LiveWeek]]
StoredStats == [success |-> TRUE, data |-> [stats |-> StoredWeek]]

DetailsAnswers ==
    {Answered(200, [success |-> TRUE, data |-> LiveDetails]),
     Answered(200, [success |-> TRUE]),
     Answered(200, [success |-> FALSE]),
     Answered(200, <<>>),
     Answered(404, <<>>), Answered(500, <<>>), Garbled(200), Thrown}

StatsAnswers ==
    {Answered(200, LiveStats(TRUE)), Answered(200, LiveStats(FALSE)),
     Answered(404, <<>>), Answered(500, <<>>), Garbled(200), Thrown}

\* The snapshot directory: empty, holding another map only, or holding
\* this map's snapshot, whole, partial or unreadable.
Snapshot(mtime, data) == [mtime |-> mtime, data |-> data]

Disks(map_code) ==
    {<<>>, FileName("other") :> Snapshot("October 28", [map_data |-> StoredDetails])}
    \cup {FileName(map_code) :> f :
            f \in {Unreadable,
                   Snapshot("October 29", [map_data |-> StoredDetails,
                                stats_7d |-> StoredStats]),
                   Snapshot("October 30", [map_data |-> StoredDetails]),
                   Snapshot("October 31", <<>>)}}

MapCodes == {"1832-0431-4852", "8530-0110-2817"}

InitFetch ==
    /\ pc = "get_details"
    /\ \E code \in MapCodes :
          /\ args = [map_code |-> code,
                     live |-> [details |-> DetailsAnswers,
                               stats |-> StatsAnswers]]
          /\ files \in Disks(code)
    /\ ret = NoReturn
    /\ io_log = <<>>
    /\ tasks = <<>>
    /\ chat_session = NoSession
    /\ ccu_series = <<>>
    /\ min_votes = DefaultMinVotes
    /\ grouping_window = DefaultGroupingWindow
    /\ focus_recent = FALSE
    /\ recent_count = 0
    /\ detector_out = [m \in Methods |-> NoOutcome]
    /\ spike_events = <<>>
    /\ result = NoResult
    /\ map_data = NotFetched
    /\ historical = NoHistory
    /\ response = NoResponse

NextFetch == GetDetails \/ GetDetailsFailed \/ PostStats \/ PostStatsFailed

SpecFetch == InitFetch /\ [][NextFetch]_vars

\* ------------------------------------- the three handlers behind the fetch
\* Everything fetch_map_from_api can return for a map: the live result of
\* two answered requests, or what load_map_from_local makes of the disk.
FetchOutcomes(map_code) ==
    {LiveResult(Get(a.body, "data", <<>>), b.body) :
        a \in {x \in DetailsAnswers : Succeeded(x)},
        b \in {x \in StatsAnswers : ~Failed(x)}}
    \cup {LoadMapFromLocal(disk, map_code) : disk \in Disks(map_code)}

\* which of the two trained artifacts were loaded at startup
LoadedModels ==
    [future_ccu_model : BOOLEAN, discovery_model : BOOLEAN]

ServedForecasts ==
    {[future_ccu_model |-> m.future_ccu_model,
      discovery_model |-> m.discovery_model,
      future_ccu_metadata |-> <<>>, fetched |-> f] :
        m \in LoadedModels, f \in UNION {FetchOutcomes(c) : c \in MapCodes}}

ServedDiscoveries ==
    {[future_ccu_model |-> m.future_ccu_model,
      discovery_model |-> m.discovery_model,
      fetched |-> f, probability |-> p] :
        m \in LoadedModels, f \in UNION {FetchOutcomes(c) : c \in MapCodes},
        p \in {Whole(0), Whole(80)}}

\* A call of one of the three handlers on a service whose artifacts were
\* loaded or not; detect_anomalies starts as in InitDetect.
InitServed ==
    \/ InitCall("predict", ServedForecasts)
    \/ InitCall("discovery", ServedDiscoveries)
    \/ InitCall("fetch", LoadedModels)

NextServed == NextDetect \/ NextForecast \/ NextDiscovery

SpecServed == InitServed /\ [][NextServed]_vars

\* --------------------------------------------- concurrent invocations
\* The handlers are coroutines of one shared MLService on one event loop.
\* Each suspends only at await fetch_map_from_api(...); the part before it
\* and the part after it run without interruption.  A frame holds the
\* locals of one invocation; args holds the fields of the shared service,
\* which no handler assigns.
NTasks == 2

Idle == [pc |-> "idle"]

Handlers == {"predict_future_ccu", "detect_anomalies", "predict_discovery"}

\* the raise before the fetch, if the handler has one
NotLoaded(service, handler) ==
    IF handler = "predict_future_ccu" /\ ~service.future_ccu_model
    THEN Raised("Future CCU model not loaded")
    ELSE IF handler = "predict_discovery" /\ ~service.discovery_model
    THEN Raised("Discovery predictor not loaded")
    ELSE NoReturn

\* detect_anomalies after its fetch, with what the three detectors and
\* _load_historical_ccu gave
AnomaliesOf(fetched, hist, outs) ==
    IF ~fetched.found THEN [kind |-> "error", error |-> "Map not found"]
    ELSE IF ~fetched.stats_7d.success
    THEN [kind |-> "error", error |-> "No time-series data available"]
    ELSE IF InsufficientData(fetched.stats_7d.stats)
    THEN [kind |-> "error",
          error |-> "Insufficient data for anomaly detection"]
    ELSE LET recent == fetched.stats_7d.stats
             fr == UsingHistorical(hist, recent)
             arr == IF fr THEN hist.ccu ELSE recent
             mr == MethodResults(outs)
             v == Votes(NPoints(arr), mr)
             events == GroupsOf(ConsensusIndices(v, DefaultMinVotes),
                                DefaultGroupingWindow)
         IN  AnomalyResponse(fetched,
                             HybridResult(arr, v, mr, events, fr,
                                          NPoints(recent)),
                             fr, hist)

\* What a handler returns or raises after its fetch, from its own fetched
\* data, the answers of the libraries it calls (given) and the service.
AfterFetch(service, handler, fetched, given) ==
    IF handler = "detect_anomalies"
    THEN AnomaliesOf(fetched, given.historical, given.detector_out)
    ELSE IF DOMAIN fetched = {} THEN Raised("Map not found")
    ELSE IF handler = "predict_future_ccu"
    THEN [kind |-> "forecast",
          result |-> Forecast(fetched, service.future_ccu_metadata)]
    ELSE [kind |-> "discovery",
          result |-> Discovery(fetched, given.probability)]

\* A request arrives: the handler runs up to its await.
InvokeTask ==
    /\ pc = "serving"
    /\ \E t \in 1..NTasks, handler \in Handlers :
          /\ tasks[t] = Idle
          /\ tasks' =
                [tasks EXCEPT ![t] =
                    IF NotLoaded(args, handler) # NoReturn
                    THEN [pc |-> "done", handler |-> handler,
                          result |-> NotLoaded(args, handler)]
                    ELSE [pc |-> "awaiting", handler |-> handler]]
    /\ UNCHANGED <<pc, hybrid_vars, detect_vars, call_vars, io_log, files,
                   chat_session>>

\* the values the fetch of a handler may resolve to: for detect_anomalies
\* no map, a live map with a spike and a stored flat one; for the others
\* no map, a live map and a stored one
TaskFetches(handler) ==
    IF handler = "detect_anomalies"
    THEN {NotFetched}
         \cup {r \in FetchResults \ {NotFetched} :
                 /\ r.stats_7d.success
                 /\ \/ /\ r.source = "live_api"
                       /\ r.stats_7d.stats = Spiked(MinSamples, 5, 0, 60)
                    \/ /\ r.source = "local_cache"
                       /\ r.stats_7d.stats = Flat(MinSamples, 5)}
    ELSE {None, LiveResult(LiveDetails, LiveStats(TRUE))}
         \cup {LoadMapFromLocal(FileName(c) :> Snapshot("October 29",
                                    [map_data |-> StoredDetails,
                                     stats_7d |-> StoredStats]), c) :
                 c \in {CHOOSE c \in MapCodes : TRUE}}

\* The fetch of one invocation resolves; the value is bound to its frame.
FetchResolves ==
    /\ pc = "serving"
    /\ \E t \in 1..NTasks :
          /\ tasks[t].pc = "awaiting"
          /\ \E value \in TaskFetches(tasks[t].handler) :
                /\ tasks' = [tasks EXCEPT ![t] =
                                [pc |-> "fetched", handler |-> tasks[t].handler,
                                 fetched |-> value]]
                /\ io_log' = Append(io_log, [op |-> "fetched", task |-> t,
                                             value |-> value])
    /\ UNCHANGED <<pc, hybrid_vars, detect_vars, call_vars, files,
                   chat_session>>

\* what the libraries answer to one invocation: no history is stored, and
\* either the detectors flag nothing and the classifier says 20, or they
\* flag the first sample and it says 80
LibraryAnswers ==
    {[detector_out |-> [m \in Methods |->
                          [raised |-> FALSE,
                           indices |-> IF high THEN {0} ELSE {}]],
      historical |-> NoHistory,
      probability |-> Whole(IF high THEN 80 ELSE 20)] :
        high \in BOOLEAN}

\* the latest resolved fetch in the order of events
RECURSIVE LastFetched(_)
LastFetched(log) ==
    IF log[Len(log)].op = "fetched" THEN log[Len(log)]
    ELSE LastFetched(SubSeq(log, 1, Len(log) - 1))

\* Faulty variant: the handler keeps the fetched map in a field of the
\* service and continues with whatever the field holds.
ResumeTask_SharedField ==
    /\ pc = "serving"
    /\ \E t \in 1..NTasks, given \in LibraryAnswers :
          /\ tasks[t].pc = "fetched"
          /\ LET last == LastFetched(io_log)
                 held == IF tasks[last.task].handler = tasks[t].handler
                         THEN last.value ELSE tasks[t].fetched
             IN  tasks' = [tasks EXCEPT ![t] =
                             [pc |-> "done", handler |-> tasks[t].handler,
                              fetched |-> tasks[t].fetched, given |-> given,
                              result |-> AfterFetch(args, tasks[t].handler,
                                                    held, given)]]
          /\ io_log' = Append(io_log, [op |-> "resumed", task |-> t])
    /\ UNCHANGED <<pc, hybrid_vars, detect_vars, call_vars, files,
                   chat_session>>

\* The invocation continues after its await and runs to its end.
ResumeTask ==
    /\ pc = "serving"
    /\ \E t \in 1..NTasks, given \in LibraryAnswers :
          /\ tasks[t].pc = "fetched"
          /\ tasks' = [tasks EXCEPT ![t] =
                          [pc |-> "done", handler |-> tasks[t].handler,
                           fetched |-> tasks[t].fetched, given |-> given,
                           result |-> AfterFetch(args, tasks[t].handler,
                                                 tasks[t].fetched, given)]]
          /\ io_log' = Append(io_log, [op |-> "resumed", task |-> t])
    /\ UNCHANGED <<pc, hybrid_vars, detect_vars, call_vars, files,
                   chat_session>>

InitConcurrent ==
    /\ pc = "serving"
    /\ args \in {[future_ccu_model |-> m.future_ccu_model,
                   discovery_model |-> m.discovery_model,
                   future_ccu_metadata |-> <<>>] : m \in LoadedModels}
    /\ tasks = [t \in 1..NTasks |-> Idle]
    /\ ret = NoReturn
    /\ io_log = <<>>
    /\ files = <<>>
    /\ chat_session = NoSession
    /\ ccu_series = <<>>
    /\ min_votes = DefaultMinVotes
    /\ grouping_window = DefaultGroupingWindow
    /\ focus_recent = FALSE
    /\ recent_count = 0
    /\ detector_out = [m \in Methods |-> NoOutcome]
    /\ spike_events = <<>>
    /\ result = NoResult
    /\ map_data = NotFetched
    /\ historical = NoHistory
    /\ response = NoResponse

NextConcurrent == InvokeTask \/ FetchResolves \/ ResumeTask

SpecConcurrent == InitConcurrent /\ [][NextConcurrent]_vars

\* ------------------------------------------------ scripts/auto_retrain.py
\* R2 scores are counted in hundredths: MIN_R2_IMPROVEMENT = 0.01 is 1.
MinNewDays == 7
MinTrainingSamples == 50
MinR2Improvement == 1

Deployed(filename) == <<"models", filename>>
BackedUp(filename) == <<"backups", filename>>
TrainingLogFile == <<"models", "training_log.json">>

\* files_to_backup of backup_current_model
FilesToBackup ==
    {"future_ccu_predictor.pkl", "future_ccu_encoders.pkl",
     "future_ccu_metadata.json"}

Exists(disk, name) == name \in DOMAIN disk

Written(disk, name, content) ==
    [n \in DOMAIN disk \cup {name} |-> IF n = name THEN content ELSE disk[n]]

\* get_current_model_performance: from the deployed metadata, 0 without it
CurrentModelPerformance(disk) ==
    IF Exists(disk, Deployed("future_ccu_metadata.json"))
    THEN [r2_score |-> Get(disk[Deployed("future_ccu_metadata.json")],
                           "test_r2", 0)]
    ELSE [r2_score |-> 0]

Results(action, old_performance, new_performance) ==
    [kind |-> "retrain", action |-> action,
     old_performance |-> old_performance,
     new_performance |-> new_performance]

\* if new_days < MIN_NEW_DAYS and not force: return "skipped"
SkipRetrain ==
    /\ pc = "auto_retrain"
    /\ args.new_days < MinNewDays /\ ~args.force
    /\ ret' = Results("skipped", None, None)
    /\ pc' = "returned"
    /\ UNCHANGED <<hybrid_vars, detect_vars, args, sys_vars>>

\* if dry_run: return "dry_run"
DryRun ==
    /\ pc = "auto_retrain"
    /\ ~(args.new_days < MinNewDays /\ ~args.force)
    /\ args.dry_run
    /\ ret' = Results("dry_run", None, None)
    /\ pc' = "returned"
    /\ UNCHANGED <<hybrid_vars, detect_vars, args, sys_vars>>

\* load_training_data gave fewer than 50 samples: return "failed"
TooFewSamples ==
    /\ pc = "auto_retrain"
    /\ ~(args.new_days < MinNewDays /\ ~args.force)
    /\ ~args.dry_run
    /\ args.samples < MinTrainingSamples
    /\ ret' = Results("failed", None, None)
    /\ pc' = "returned"
    /\ UNCHANGED <<hybrid_vars, detect_vars, args, sys_vars>>

\* the R2 scores a training may end with
TrainedScores == {-5, 0, 1, 49, 50, 51}

\* get_current_model_performance and train_future_ccu_model
TrainModel ==
    /\ pc = "auto_retrain"
    /\ ~(args.new_days < MinNewDays /\ ~args.force)
    /\ ~args.dry_run
    /\ args.samples >= MinTrainingSamples
    /\ \E r2 \in TrainedScores :
          tasks' = <<[current_perf |-> CurrentModelPerformance(files),
                      new_perf |-> [r2_score |-> r2]]>>
    /\ pc' = "compare"
    /\ UNCHANGED <<hybrid_vars, detect_vars, call_vars, io_log, files,
                   chat_session>>

Improvement(frame) == frame.new_perf.r2_score - frame.current_perf.r2_score

\* Faulty variant: the option force does not reach the comparison.
ShouldDeploy_Unforced(frame, force) == Improvement(frame) >= MinR2Improvement

\* if improvement >= MIN_R2_IMPROVEMENT or force
ShouldDeploy(frame, force) ==
    Improvement(frame) >= MinR2Improvement \/ force

\* the else branch: return "not_deployed"
NotDeployed ==
    /\ pc = "compare"
    /\ ~ShouldDeploy(tasks[1], args.force)
    /\ ret' = Results("not_deployed", tasks[1].current_perf, tasks[1].new_perf)
    /\ pc' = "returned"
    /\ UNCHANGED <<hybrid_vars, detect_vars, args, sys_vars>>

RECURSIVE CopiedAll(_, _)
CopiedAll(disk, filenames) ==
    IF filenames = {} THEN disk
    ELSE LET f == CHOOSE f \in filenames : TRUE
             rest == CopiedAll(disk, filenames \ {f})
         IN  IF Exists(disk, Deployed(f))
             THEN Written(rest, BackedUp(f), disk[Deployed(f)])
             ELSE rest

\* Faulty variant: deploy_new_model without its backup.
BackupCurrentModel_Omitted ==
    /\ pc = "compare"
    /\ ShouldDeploy(tasks[1], args.force)
    /\ pc' = "backed_up"
    /\ UNCHANGED <<hybrid_vars, detect_vars, call_vars, sys_vars>>

\* backup_current_model: copy of each deployed file that exists
BackupCurrentModel ==
    /\ pc = "compare"
    /\ ShouldDeploy(tasks[1], args.force)
    /\ files' = CopiedAll(files, FilesToBackup)
    /\ io_log' = Append(io_log, [op |-> "backup"])
    /\ pc' = "backed_up"
    /\ UNCHANGED <<hybrid_vars, detect_vars, call_vars, tasks, chat_session>>

\* joblib.dump(model, MODELS_DIR / "future_ccu_predictor.pkl")
DumpModel ==
    /\ pc = "backed_up"
    /\ files' = Written(files, Deployed("future_ccu_predictor.pkl"),
                        [model_r2 |-> tasks[1].new_perf.r2_score])
    /\ io_log' = Append(io_log, [op |-> "write",
                                 file |-> "future_ccu_predictor.pkl"])
    /\ pc' = "dumped"
    /\ UNCHANGED <<hybrid_vars, detect_vars, call_vars, tasks, chat_session>>

\* json.dump(metadata, ...) into future_ccu_metadata.json
WriteMetadata ==
    /\ pc = "dumped"
    /\ files' = Written(files, Deployed("future_ccu_metadata.json"),
                        [test_r2 |-> tasks[1].new_perf.r2_score,
                         auto_trained |-> TRUE])
    /\ io_log' = Append(io_log, [op |-> "write",
                                 file |-> "future_ccu_metadata.json"])
    /\ pc' = "deployed"
    /\ UNCHANGED <<hybrid_vars, detect_vars, call_vars, tasks, chat_session>>

\* save_training_info and return "deployed"
SaveTrainingInfo ==
    /\ pc = "deployed"
    /\ files' = Written(files, TrainingLogFile,
                        [models_trained |-> <<"future_ccu_predictor">>,
                         performance |-> tasks[1].new_perf])
    /\ io_log' = Append(io_log, [op |-> "write", file |-> "training_log.json"])
    /\ ret' = Results("deployed", tasks[1].current_perf, tasks[1].new_perf)
    /\ pc' = "returned"
    /\ UNCHANGED <<hybrid_vars, detect_vars, args, tasks, chat_session>>

\* the models directory before a run: empty, holding the model the
\* notebooks trained (no training log yet), or one deployed by an earlier run
ModelDirs ==
    {<<>>}
    \cup {Written(Written(Written(<<>>,
              Deployed("future_ccu_predictor.pkl"), [model_r2 |-> 50]),
              Deployed("future_ccu_encoders.pkl"), [encoders |-> "fitted"]),
              Deployed("future_ccu_metadata.json"), [test_r2 |-> 50])}
    \cup {Written(Written(Written(
              <<>>,
              Deployed("future_ccu_predictor.pkl"), [model_r2 |-> 50]),
              Deployed("future_ccu_metadata.json"),
              [test_r2 |-> 50, auto_trained |-> TRUE]),
              TrainingLogFile,
              [models_trained |-> <<"future_ccu_predictor">>,
               performance |-> [r2_score |-> 50]])}

InitRetrain ==
    /\ pc = "auto_retrain"
    /\ files \in ModelDirs
    /\ args \in {[force |-> f, dry_run |-> d, new_days |-> n, samples |-> k,
                   disk |-> files] :
                    f \in BOOLEAN, d \in BOOLEAN,
                    n \in {MinNewDays - 1, MinNewDays},
                    k \in {MinTrainingSamples - 1, MinTrainingSamples}}
    /\ ret = NoReturn
    /\ io_log = <<>>
    /\ tasks = <<>>
    /\ chat_session = NoSession
    /\ ccu_series = <<>>
    /\ min_votes = DefaultMinVotes
    /\ grouping_window = DefaultGroupingWindow
    /\ focus_recent = FALSE
    /\ recent_count = 0
    /\ detector_out = [m \in Methods |-> NoOutcome]
    /\ spike_events = <<>>
    /\ result = NoResult
    /\ map_data = NotFetched
    /\ historical = NoHistory
    /\ response = NoResponse

NextRetrain ==
    \/ SkipRetrain
    \/ DryRun
    \/ TooFewSamples
    \/ TrainModel
    \/ NotDeployed
    \/ BackupCurrentModel
    \/ DumpModel
    \/ WriteMetadata
    \/ SaveTrainingInfo

SpecRetrain == InitRetrain /\ [][NextRetrain]_vars

\* ------------------------------------------- scripts/collect_daily_ccu.py
\* A map code is the sequence of its digit groups and dashes.
\* map_code.replace("-", "")
WithoutDashes(map_code) == SelectSeq(map_code, LAMBDA part : part # "-")

\* today_file = HISTORICAL_DATA_DIR / map_code.replace("-", "") / today.json
TodayFile(map_code, today) == <<"historical", WithoutDashes(map_code), today>>

CollectionLogFile(today) == <<"historical", <<"_logs">>, today>>

\* save_daily_snapshot: FALSE without usable stats, an exception when
\* stats_7d["data"] is null, otherwise the snapshot to write
SnapshotOf(map_code, fetched, today, now) ==
    IF ~Get(fetched.stats_7d, "success", FALSE) THEN [saved |-> FALSE]
    ELSE IF "null" \in DOMAIN Get(fetched.stats_7d, "data", <<>>)
    THEN [raised |-> "'NoneType' object has no attribute 'get'"]
    ELSE IF Get(Get(fetched.stats_7d, "data", <<>>), "stats", <<>>) = <<>>
    THEN [saved |-> FALSE]
    ELSE [saved |-> TRUE,
          snapshot |-> [map_code |-> map_code,
                        map_name |-> Get(fetched.map_data, "name", "Unknown"),
                        collection_date |-> today,
                        collection_timestamp |-> now,
                        ccu_readings |-> fetched.stats_7d.data.stats,
                        num_readings |-> Len(fetched.stats_7d.data.stats)]]

Counted(results, field) == [results EXCEPT ![field] = @ + 1]

FailedWith(results, map_code, error) ==
    [Counted(results, "failed") EXCEPT
        !.errors = Append(@, [map_code |-> map_code, error |-> error])]

\* what fetch_map_from_api may give the collector
CollectedMaps ==
    {None,
     [map_data |-> [name |-> "Zone Wars"],
      stats_7d |-> [success |-> TRUE, data |-> [stats |-> <<5, 7>>]]],
     [map_data |-> <<>>, stats_7d |-> [success |-> FALSE]],
     [map_data |-> [name |-> "Zone Wars"],
      stats_7d |-> [success |-> TRUE, data |-> [stats |-> <<>>]]],
     [map_data |-> [name |-> "Zone Wars"],
      stats_7d |-> [success |-> TRUE, data |-> [null |-> TRUE]]]}

\* Faulty variant: today's file is never found.
AlreadyCollected_Never(disk, today_file) == FALSE

\* if today_file.exists()
AlreadyCollected(disk, today_file) == Exists(disk, today_file)

\* one pass of the loop of collect_daily_data, for the next listed map:
\* skip it if collected today, else fetch it and save its snapshot
CollectMap ==
    /\ pc = "collect"
    /\ tasks[1].i < Len(args.map_codes)
    /\ LET frame == tasks[1]
           map_code == args.map_codes[frame.i + 1]
           today_file == TodayFile(map_code, args.today)
       IN  IF AlreadyCollected(files, today_file)
           THEN /\ tasks' = <<[frame EXCEPT
                                 !.i = @ + 1,
                                 !.results = Counted(@, "skipped")]>>
                /\ UNCHANGED <<io_log, files>>
           ELSE \E fetched \in CollectedMaps :
                  /\ io_log' = Append(io_log, [op |-> "fetch",
                                               map_code |-> map_code])
                  /\ IF fetched = None
                     THEN /\ tasks' = <<[frame EXCEPT
                                           !.i = @ + 1,
                                           !.results = FailedWith(@, map_code,
                                                           "Map not found")]>>
                          /\ UNCHANGED files
                     ELSE LET saved == SnapshotOf(map_code, fetched,
                                                 args.today, frame.now)
                          IN  IF "raised" \in DOMAIN saved
                              THEN /\ tasks' = <<[frame EXCEPT
                                          !.i = @ + 1,
                                          !.results = FailedWith(@, map_code,
                                                          saved.raised)]>>
                                   /\ UNCHANGED files
                              ELSE IF saved.saved
                              THEN /\ tasks' = <<[frame EXCEPT
                                          !.i = @ + 1,
                                          !.results = Counted(@, "successful")]>>
                                   /\ files' = Written(files, today_file,
                                                       saved.snapshot)
                              ELSE /\ tasks' = <<[frame EXCEPT
                                          !.i = @ + 1,
                                          !.results = FailedWith(@, map_code,
                                                          "No CCU data")]>>
                                   /\ UNCHANGED files
    /\ UNCHANGED <<pc, hybrid_vars, detect_vars, call_vars, chat_session>>

\* after the loop: the collection log is written and results returned
SaveCollectionLog ==
    /\ pc = "collect"
    /\ tasks[1].i = Len(args.map_codes)
    /\ files' = Written(files, CollectionLogFile(args.today), tasks[1].results)
    /\ ret' = [kind |-> "collected", results |-> tasks[1].results]
    /\ pc' = "returned"
    /\ UNCHANGED <<hybrid_vars, detect_vars, args, io_log, tasks, chat_session>>

MaxRuns == 2

NewResults(today, map_codes) ==
    [date |-> today, total_maps |-> Len(map_codes),
     successful |-> 0, failed |-> 0, skipped |-> 0, errors |-> <<>>]

\* the frame of a run: the position in the list, the results, the clock,
\* and (for the record) the files present when the run began
NewRun(now, disk) ==
    <<[i |-> 0, results |-> NewResults(args.today, args.map_codes),
       now |-> now, before |-> disk]>>

\* The script is started again on the same day with the same list.
CollectAgain ==
    /\ pc = "returned"
    /\ tasks[1].now < MaxRuns
    /\ tasks' = NewRun(tasks[1].now + 1, files)
    /\ io_log' = <<>>
    /\ ret' = NoReturn
    /\ pc' = "collect"
    /\ UNCHANGED <<hybrid_vars, detect_vars, args, files, chat_session>>

\* lists of one or two maps, one of them listing a map twice and one
\* listing it with and without its dashes
ListedMaps ==
    LET a == <<"1832", "-", "0431">>
        b == <<"8530", "-", "0110">>
    IN  {<<>>, <<a>>, <<a, b>>, <<a, a>>, <<a, <<"1832", "0431">>>>}

Today == "2025-11-01"

\* the historical directory before the first run of the day
HistoricalDirs ==
    LET old == [ccu_readings |-> <<3>>, collection_timestamp |-> 0]
    IN  {<<>>,
         <<"historical", <<"1832", "0431">>, "2025-10-31">> :> old,
         <<"historical", <<"1832", "0431">>, Today>> :> old,
         <<"historical", <<"8530", "0110">>, Today>> :> old}

InitCollect ==
    /\ pc = "collect"
    /\ args \in {[map_codes |-> l, today |-> Today] : l \in ListedMaps}
    /\ files \in HistoricalDirs
    /\ tasks = NewRun(1, files)
    /\ ret = NoReturn
    /\ io_log = <<>>
    /\ chat_session = NoSession
    /\ ccu_series = <<>>
    /\ min_votes = DefaultMinVotes
    /\ grouping_window = DefaultGroupingWindow
    /\ focus_recent = FALSE
    /\ recent_count = 0
    /\ detector_out = [m \in Methods |-> NoOutcome]
    /\ spike_events = <<>>
    /\ result = NoResult
    /\ map_data = NotFetched
    /\ historical = NoHistory
    /\ response = NoResponse

NextCollect == CollectMap \/ SaveCollectionLog \/ CollectAgain

SpecCollect == InitCollect /\ [][NextCollect]_vars

\* ------------------------------------------------- chat_service.chat
\* One ChatService serves every request.  Its chat_session is the Gemini
\* session: send_message answers from the turns the session holds and the
\* content sent, and appends both the content and the answer to the session.
\* A reply is recorded by the context it was generated from.
MaxTurns == 8

Callers == 1..NTasks

\* the conversation_history a request may carry
Histories == {<<>>, <<"earlier question", "earlier answer">>}

MessageOf(caller) == <<"question of caller", caller>>

\* self.model.start_chat(history=[]) unless a session exists
SessionFor(session) ==
    IF session.started THEN session ELSE [started |-> TRUE, history |-> <<>>]

\* chat_session.send_message(content): the context of the answer, and the
\* session afterwards
Context(session, content) == Append(session.history, content)

Sent(session, content, answer) ==
    [session EXCEPT !.history = Context(session, content) \o <<answer>>]

\* if not self.model: return the missing_api_key error
ChatUnconfigured ==
    /\ pc = "chat"
    /\ ~args.model
    /\ \E t \in Callers, h \in Histories :
          /\ tasks[t] = Idle
          /\ tasks' = [tasks EXCEPT ![t] =
                          [pc |-> "done", message |-> MessageOf(t),
                           conversation_history |-> h,
                           error |-> "missing_api_key"]]
    /\ UNCHANGED <<pc, hybrid_vars, detect_vars, call_vars, io_log, files,
                   chat_session>>

\* chat(): the message is sent and Gemini answers with text
ChatAnswered ==
    /\ pc = "chat"
    /\ args.model
    /\ \E t \in Callers, h \in Histories :
          /\ tasks[t] = Idle
          /\ LET session == SessionFor(chat_session)
                 content == [role |-> "user", text |-> MessageOf(t)]
             IN  /\ Len(session.history) + 2 <= MaxTurns
                 /\ chat_session' = Sent(session, content,
                                         [role |-> "model", text |-> "answer"])
                 /\ tasks' = [tasks EXCEPT ![t] =
                                 [pc |-> "done", message |-> MessageOf(t),
                                  conversation_history |-> h,
                                  context |-> Context(session, content)]]
    /\ UNCHANGED <<pc, hybrid_vars, detect_vars, call_vars, io_log, files>>

\* chat(): the message is sent, Gemini asks for a function, and the
\* request waits for _execute_function
ChatCallsFunction ==
    /\ pc = "chat"
    /\ args.model
    /\ \E t \in Callers, h \in Histories :
          /\ tasks[t] = Idle
          /\ LET session == SessionFor(chat_session)
                 content == [role |-> "user", text |-> MessageOf(t)]
             IN  /\ Len(session.history) + 4 <= MaxTurns
                 /\ chat_session' = Sent(session, content,
                                         [role |-> "model",
                                          text |-> "function_call"])
                 /\ tasks' = [tasks EXCEPT ![t] =
                                 [pc |-> "executing", message |-> MessageOf(t),
                                  conversation_history |-> h]]
    /\ UNCHANGED <<pc, hybrid_vars, detect_vars, call_vars, io_log, files>>

\* chat(): the function result is sent to the session of the service and
\* the answer returned
ChatFunctionAnswered ==
    /\ pc = "chat"
    /\ \E t \in Callers :
          /\ tasks[t].pc = "executing"
          /\ LET content == [role |-> "function",
                             text |-> <<"result for caller", t>>]
             IN  /\ chat_session' = Sent(chat_session, content,
                                         [role |-> "model", text |-> "answer"])
                 /\ tasks' = [tasks EXCEPT ![t] =
                                 [pc |-> "done", message |-> tasks[t].message,
                                  conversation_history |->
                                      tasks[t].conversation_history,
                                  context |-> Context(chat_session, content)]]
    /\ UNCHANGED <<pc, hybrid_vars, detect_vars, call_vars, io_log, files>>

InitChat ==
    /\ pc = "chat"
    /\ args \in {[model |-> configured] : configured \in BOOLEAN}
    /\ tasks = [t \in Callers |-> Idle]
    /\ chat_session = NoSession
    /\ ret = NoReturn
    /\ io_log = <<>>
    /\ files = <<>>
    /\ ccu_series = <<>>
    /\ min_votes = DefaultMinVotes
    /\ grouping_window = DefaultGroupingWindow
    /\ focus_recent = FALSE
    /\ recent_count = 0
    /\ detector_out = [m \in Methods |-> NoOutcome]
    /\ spike_events = <<>>
    /\ result = NoResult
    /\ map_data = NotFetched
    /\ historical = NoHistory
    /\ response = NoResponse

NextChat ==
    \/ ChatUnconfigured
    \/ ChatAnswered
    \/ ChatCallsFunction
    \/ ChatFunctionAnswered

SpecChat == InitChat /\ [][NextChat]_vars

\* ------------------------------------ detect_anomalies on many spikes
\* A week of readings with a burst every eighth sample, and detectors that
\* flag the bursts: STL and peak prominence all of them, LOF none, all, or
\* those after the tenth.
BurstGap == 8
MaxBursts == 12

BurstAt(k) == BurstGap * (k - 1)

Bursts(k) == {BurstAt(j) : j \in 1..k}

BurstSeries(k) ==
    [i \in 0..(BurstGap * MaxBursts - 1) |->
        IF i \in Bursts(k) THEN 200 + i ELSE 5]

BurstInputs ==
    {[fetched |-> [found |-> TRUE, map_data |-> [name |-> "map"],
                   stats_7d |-> [success |-> TRUE, stats |-> BurstSeries(k)]]
                  @@ flags,
      historical |-> NoHistory,
      bursts |-> k,
      lof |-> lof,
      detector_out |->
          [m \in Methods |->
              [raised |-> FALSE,
               indices |-> IF m = "LOF"
                           THEN (IF lof = "all" THEN Bursts(k)
                                 ELSE IF lof = "late"
                                 THEN Bursts(k) \ Bursts(MaxSpikeDetails)
                                 ELSE {})
                           ELSE Bursts(k)]]] :
        k \in 0..MaxBursts, lof \in {"none", "all", "late"},
        flags \in {[source |-> "live_api"],
                   [source |-> "local_cache",
                    cache_warning |-> "may be outdated",
                    collection_date |-> "October 30"]}}

\* detect_anomalies from its fetch to its return
DetectFetched ==
    /\ pc = "detect_fetched"
    /\ ret' = [kind |-> "anomalies",
               value |-> AnomaliesOf(args.fetched, args.historical,
                                     args.detector_out)]
    /\ pc' = "returned"
    /\ UNCHANGED <<hybrid_vars, detect_vars, args, sys_vars>>

InitBursts == InitCall("detect_fetched", BurstInputs)

NextBursts == DetectFetched

SpecBursts == InitBursts /\ [][NextBursts]_vars

\* ------------------------------------------------------------------ claims
\* Detectors that returned sample i.
FlaggedBy(i) ==
    {m \in Methods : ~detector_out[m].raised /\ i \in detector_out[m].indices}

\* Samples with enough votes.
ConsensusSet ==
    {i \in DOMAIN ccu_series : Cardinality(FlaggedBy(i)) >= min_votes}

NumGroups == Len(spike_events)
Group(p) == Members(spike_events[p])
Details == result.spike_details
NumDetails == Len(result.spike_details)

\* The first index of group p that holds the largest value of the group.
GroupPeak(p) ==
    CHOOSE i \in Group(p) :
        /\ \A j \in Group(p) : ccu_series[j] <= ccu_series[i]
        /\ \A j \in Group(p) : ccu_series[j] = ccu_series[i] => i <= j

\* peak - mean_ccu >= T for the tier of the series, as exact fractions:
\* with s the sum and n the length, peak - s/n >= max(a, f * s/n).
MeetsTierThreshold(peak) ==
    LET n == NPoints(ccu_series)
        s == SumOf(ccu_series)
        mx == MaxOf(ccu_series)
        excess == n * peak - s
    IN  IF mx < 20 THEN excess >= 10 * n /\ excess >= 2 * s
        ELSE IF mx < 50 THEN excess >= 15 * n /\ 2 * excess >= 3 * s
        ELSE excess >= 20 * n /\ 4 * excess >= s

InRecentWindow(i) ==
    ~(focus_recent /\ recent_count > 0
        /\ i < NPoints(ccu_series) - recent_count)

\* C1: every reported event has its peak at a sample that at least
\* min_votes detectors flagged, its votes field lies between min_votes and
\* 3, and nothing is reported when no sample reaches min_votes votes.
C1_PeakReachesConsensus ==
    result.returned =>
        /\ \A k \in 1..NumDetails :
              /\ Cardinality(FlaggedBy(Details[k].original_index)) >= min_votes
              /\ Details[k].votes >= min_votes
              /\ Details[k].votes <= 3
        /\ (ConsensusSet = {}) =>
              (result.num_spikes = 0 /\ NumDetails = 0
                 /\ result.spike_indices = <<>>)

\* An event is reported while another flagged sample stays below min_votes.
C1_Witness ==
    /\ result.returned
    /\ result.num_spikes >= 1
    /\ \E i \in DOMAIN ccu_series :
          Cardinality(FlaggedBy(i)) >= 1 /\ i \notin ConsensusSet

\* C2: the groups split the consensus indices, two neighbouring consensus
\* indices share a group exactly when they differ by at most
\* grouping_window, a group yields at most one event, and the consensus
\* samples of two reported events are more than grouping_window apart.
C2_GroupsSplitAtGaps ==
    result.returned =>
        /\ UNION {Group(p) : p \in 1..NumGroups} = ConsensusSet
        /\ \A p, q \in 1..NumGroups : p # q => Group(p) \cap Group(q) = {}
        /\ \A a, b \in ConsensusSet :
              (a < b /\ ~\E c \in ConsensusSet : a < c /\ c < b) =>
                 ((\E p \in 1..NumGroups : a \in Group(p) /\ b \in Group(p))
                    <=> b - a <= grouping_window)
        /\ \A p \in 1..NumGroups :
              Cardinality({k \in 1..NumDetails :
                              Details[k].original_index \in Group(p)}) <= 1
        /\ \A k1, k2 \in 1..NumDetails : k1 # k2 =>
              \A p, q \in 1..NumGroups :
                 (Details[k1].original_index \in Group(p)
                    /\ Details[k2].original_index \in Group(q)) =>
                    \A i \in Group(p), j \in Group(q) :
                       (i - j > grouping_window \/ j - i > grouping_window)

\* Two events are reported from two groups of a call that merges nothing.
C2_Witness ==
    /\ result.returned
    /\ grouping_window = 0
    /\ result.num_spikes = 2

\* C3: original_index is a member of the event's group, no sample of the
\* group has a larger CCU value, and peak_ccu is the value at that index.
C3_PeakIsGroupMaximum ==
    result.returned =>
        \A k \in 1..NumDetails :
            /\ Details[k].original_index \in ConsensusSet
            /\ \E p \in 1..NumGroups :
                  /\ Details[k].original_index \in Group(p)
                  /\ \A j \in Group(p) :
                        ccu_series[j] <= ccu_series[Details[k].original_index]
            /\ Details[k].peak_ccu = ccu_series[Details[k].original_index]

\* An event whose peak is not the first sample of its group.
C3_Witness ==
    /\ result.returned
    /\ \E k \in 1..NumDetails : \E p \in 1..NumGroups :
          /\ Details[k].original_index \in Group(p)
          /\ spike_events[p][1] # Details[k].original_index
          /\ ccu_series[spike_events[p][1]] < Details[k].peak_ccu

\* C4: every reported event has peak_ccu - mean_ccu >= T for the tier of
\* the series, and every group whose peak meets T and lies in the recent
\* window is reported.
C4_ScaleFilter ==
    result.returned =>
        /\ \A k \in 1..NumDetails : MeetsTierThreshold(Details[k].peak_ccu)
        /\ \A p \in 1..NumGroups :
              (MeetsTierThreshold(ccu_series[GroupPeak(p)])
                  /\ InRecentWindow(GroupPeak(p))) =>
                 \E k \in 1..NumDetails :
                    Details[k].original_index = GroupPeak(p)

\* On a tiny map one group is reported and another is dropped as too small.
C4_Witness ==
    /\ result.returned
    /\ MaxOf(ccu_series) < 20
    /\ result.num_spikes >= 1
    /\ \E p \in 1..NumGroups :
          ~MeetsTierThreshold(ccu_series[GroupPeak(p)])

\* C5: with focus_recent and 0 < recent_count <= n no event has its peak
\* below n - recent_count, while the votes and the scale of the map are
\* taken over the whole series.
C5_OnlyRecentPeaks ==
    (result.returned /\ focus_recent /\ recent_count > 0
        /\ recent_count <= NPoints(ccu_series)) =>
        /\ \A k \in 1..NumDetails :
              Details[k].original_index >= NPoints(ccu_series) - recent_count
        /\ DOMAIN result.votes = DOMAIN ccu_series
        /\ \A i \in DOMAIN ccu_series :
              result.votes[i] = Cardinality(FlaggedBy(i))
        /\ "map_scale" \in DOMAIN result =>
              /\ \A i \in DOMAIN ccu_series :
                    ccu_series[i] <= result.map_scale.max_ccu
              /\ \E i \in DOMAIN ccu_series :
                    ccu_series[i] = result.map_scale.max_ccu

\* A group of the old part meets the threshold and is not reported, while
\* a group of the recent part is.
C5_Witness ==
    /\ result.returned
    /\ focus_recent
    /\ recent_count > 0
    /\ recent_count < NPoints(ccu_series)
    /\ result.num_spikes >= 1
    /\ \E p \in 1..NumGroups :
          /\ MeetsTierThreshold(ccu_series[GroupPeak(p)])
          /\ GroupPeak(p) < NPoints(ccu_series) - recent_count

\* C6 as stated: with focus_recent every peak_index lies in
\* 0..recent_count-1 and equals original_index - (n - recent_count);
\* without focus_recent peak_index equals original_index.
C6_RebasedWheneverFocusRecent ==
    result.returned =>
        \A k \in 1..NumDetails :
            IF focus_recent
            THEN /\ Details[k].peak_index \in 0..(recent_count - 1)
                 /\ Details[k].peak_index =
                       Details[k].original_index
                         - (NPoints(ccu_series) - recent_count)
            ELSE Details[k].peak_index = Details[k].original_index

\* C6 amended: with focus_recent and recent_count > 0 every peak_index lies
\* in 0..recent_count-1 and equals original_index - (n - recent_count);
\* without focus_recent, or with recent_count = 0, peak_index equals
\* original_index.
C6_RebasedWhenRecentCountPositive ==
    result.returned =>
        \A k \in 1..NumDetails :
            IF focus_recent /\ recent_count > 0
            THEN /\ Details[k].peak_index \in 0..(recent_count - 1)
                 /\ Details[k].peak_index =
                       Details[k].original_index
                         - (NPoints(ccu_series) - recent_count)
            ELSE Details[k].peak_index = Details[k].original_index

\* An event of the recent window is reported with a rebased index.
C6_Witness ==
    /\ result.returned
    /\ focus_recent
    /\ recent_count > 0
    /\ \E k \in 1..NumDetails :
          Details[k].peak_index # Details[k].original_index

\* C7: when detectors raise the call still returns; a detector that raised
\* has an empty method_results entry and adds no vote, and the indices the
\* other detectors returned are recorded and counted.
C7_FailedDetectorAddsNothing ==
    pc = "hybrid_done" =>
        /\ result.returned
        /\ \A m \in Methods :
              result.method_results[m] =
                 (IF detector_out[m].raised THEN {} ELSE detector_out[m].indices)
        /\ \A i \in DOMAIN ccu_series :
              result.votes[i] = Cardinality(FlaggedBy(i))

\* One detector raised and the two others still produce an event.
C7_Witness ==
    /\ result.returned
    /\ Cardinality({m \in Methods : detector_out[m].raised}) = 1
    /\ detector_out["STL"].raised
    /\ result.num_spikes >= 1

\* C8 as stated: detect_anomalies raises only when the fetch returned
\* nothing or the fetched series has fewer than 50 samples.
C8_FailsOnlyWithoutMapOrSamples ==
    pc = "raised" =>
        (~map_data.found \/ NPoints(map_data.stats_7d.stats) < 50)

\* C8 amended: detect_anomalies raises exactly when the fetch returned
\* nothing, the stats are not marked successful or the series has fewer
\* than 50 samples; otherwise the call goes on to return a result record.
C8_FailsOnlyWithoutMapStatsOrSamples ==
    LET refused == \/ ~map_data.found
                   \/ ~map_data.stats_7d.success
                   \/ NPoints(map_data.stats_7d.stats) < 50
    IN  /\ pc = "raised" => (refused /\ response.kind = "error")
        /\ pc = "returned" => (~refused /\ response.kind = "result")
        /\ (pc \in {"check", "hybrid", "hybrid_done"} /\ ~refused) =>
              ~ENABLED (RaiseNotFound \/ RaiseNoTimeSeries
                          \/ RaiseInsufficientData)
        /\ pc = "check" => (ENABLED CallHybrid <=> ~refused)
        /\ pc = "hybrid_done" => (~refused /\ ENABLED BuildResponse)

\* A successful fetch of exactly 50 samples returns a result without spikes.
C8_Witness ==
    /\ pc = "returned"
    /\ NPoints(map_data.stats_7d.stats) = 50
    /\ response.kind = "result"
    /\ response.num_spikes = 0

\* C9: every dict the hybrid returns holds map_scale, and every result of
\* detect_anomalies reports a non-empty map_scale.
C9_MapScaleAlwaysReported ==
    /\ result.returned => "map_scale" \in DOMAIN result
    /\ response.kind = "result" => DOMAIN response.map_scale # {}

\* C10 as stated: votes equals the number of names in methods_agreed.
C10_VotesCountMethodsAgreed ==
    result.returned =>
        \A k \in 1..NumDetails :
            Details[k].votes = Cardinality(Details[k].methods_agreed)

\* C10 amended: votes is the number of detectors that flagged the peak
\* sample; methods_agreed names the detectors that flagged any sample of
\* the group, so votes is at most the number of names in methods_agreed.
C10_VotesCountPeakFlags ==
    result.returned =>
        \A k \in 1..NumDetails : \E p \in 1..NumGroups :
            /\ Details[k].original_index \in Group(p)
            /\ Details[k].votes =
                  Cardinality(FlaggedBy(Details[k].original_index))
            /\ Details[k].methods_agreed =
                  {m \in Methods : \E i \in Group(p) : m \in FlaggedBy(i)}
            /\ Details[k].votes <= Cardinality(Details[k].methods_agreed)
            /\ Details[k].spike_duration_indices = Cardinality(Group(p))

\* An event whose group drew more detectors than its peak did.
C10_Witness ==
    /\ result.returned
    /\ \E k \in 1..NumDetails :
          Details[k].votes < Cardinality(Details[k].methods_agreed)

\* Vote lists of hypothetical spike events, to compare scores with.
VoteLists == UNION {[1..k -> [votes : 1..Cardinality(Methods)]] : k \in 1..2}

\* C11: is_anomalous holds exactly when num_spikes >= 1; the score is then
\* -1/2 - avg_votes/6, which is negative and smaller than the score of
\* every list of events with a smaller average vote count; without spikes
\* the score is 1/10.
C11_AnomalousIffSpikes ==
    response.kind = "result" =>
        LET k == Len(result.spike_details)
            total == SumVotes(result.spike_details, k)
            score == response.anomaly_score
        IN  /\ response.is_anomalous <=> response.num_spikes >= 1
            /\ response.num_spikes = k
            /\ score.den > 0
            /\ k >= 1 =>
                  /\ score.num < 0
                  /\ 6 * k * score.num = 0 - score.den * (3 * k + total)
                  /\ \A b \in VoteLists :
                        LET other == AnomalyScore(b)
                        IN  SumVotes(b, Len(b)) * k < total * Len(b) =>
                               score.num * other.den < other.num * score.den
            /\ k = 0 => score.num * 10 = score.den

\* A result whose only event has the votes of all three detectors: score -1.
C11_Witness ==
    /\ response.kind = "result"
    /\ response.is_anomalous
    /\ response.num_spikes = 1
    /\ result.spike_details[1].votes = 3
    /\ response.anomaly_score.num = 0 - response.anomaly_score.den

\* C12: when no sample of the series reaches mean_ccu + T for the tier of
\* the series, and so whenever max_ccu <= 10, the hybrid reports no event,
\* whatever the detectors flagged.
C12_QuietSeriesReportNothing ==
    result.returned =>
        /\ (\A i \in DOMAIN ccu_series : ~MeetsTierThreshold(ccu_series[i])) =>
              (result.num_spikes = 0 /\ result.spike_details = <<>>)
        /\ MaxOf(ccu_series) <= 10 =>
              (result.num_spikes = 0 /\ result.spike_details = <<>>)

\* A 5-CCU bump on a map that peaks at 10 CCU, flagged by all three
\* detectors, grouped, and not reported.
C12_Witness ==
    /\ result.returned
    /\ MaxOf(ccu_series) = 10
    /\ \E i \in DOMAIN ccu_series :
          /\ ccu_series[i] = 10
          /\ result.votes[i] = 3
          /\ \A j \in DOMAIN ccu_series \ {i} : ccu_series[j] = 5
    /\ NumGroups >= 1
    /\ result.num_spikes = 0

\* What a call of _calculate_trend_features was given.
GivenStats == args.stats_7d
GivenPoints == DataPoints(args.stats_7d)

IsZeroBundle(f) ==
    /\ f.avg_ccu_7d.num = 0
    /\ f.trend_slope.num = 0
    /\ f.volatility_sq.num = 0
    /\ f.recent_momentum.num = 0

\* C14: _calculate_trend_features returns, and what it returns is the
\* all-zero bundle whenever the stats record is missing, is not marked
\* successful or holds fewer than 10 samples.
C14_ZeroFeaturesWithoutData ==
    pc = "returned" =>
        /\ ret.kind = "features"
        /\ (\/ DOMAIN GivenStats = {}
            \/ "success" \notin DOMAIN GivenStats
            \/ ~GivenStats.success
            \/ NPoints(GivenPoints) < 10) => IsZeroBundle(ret.features)

\* Nine samples of a busy map, marked successful: all-zero features.
C14_Witness ==
    /\ pc = "returned"
    /\ GivenStats # <<>>
    /\ Get(GivenStats, "success", FALSE)
    /\ NPoints(GivenPoints) = 9
    /\ SumOf(GivenPoints) > 0
    /\ IsZeroBundle(ret.features)

\* C13: on a constant series the volatility is 0 and each detector
\* returns an empty list.
C13_ConstantSeriesUnflagged ==
    (pc = "returned" /\ "ccu_series" \in DOMAIN args
        /\ IsConstant(args.ccu_series)) =>
        /\ ret.kind = "features" => ret.features.volatility_sq.num = 0
        /\ ret.kind # "features" => (ret.kind = "flags" /\ ret.indices = {})

\* ------------------------------------------------------------ the forecast
ForecastReturned == pc = "returned" /\ ret.kind = "forecast"

\* the features and the MAE the returned forecast was computed from
GivenFeatures == FutureCcuFeatures(args.fetched)
GivenMae == MaeOf(args.future_ccu_metadata)

\* round(x) of a rational x >= 0: the nearest integer, ties to even
RoundWhole(x) ==
    LET q == x.num \div x.den
        r == x.num % x.den
    IN  IF 2 * r > x.den THEN q + 1
        ELSE IF 2 * r < x.den THEN q
        ELSE IF q % 2 = 0 THEN q ELSE q + 1

\* C15: with trend_slope = 0, all seven daily_forecast entries have
\* predicted_ccu = round(baseline_ccu), whatever the baseline.  The code
\* cuts the fraction off (int) instead, so a baseline of 10.75 is forecast
\* as 10 and not as 11.
C15_FlatForecastRoundsBaseline ==
    (ForecastReturned /\ GivenFeatures.trend_slope.num = 0)
        => \A day \in 1..ForecastDays :
              ret.result.daily_forecast[day].predicted_ccu
                  = RoundWhole(GivenFeatures.baseline_ccu)

\* C16: Growing iff total_change_pct > 10, Declining iff < -10, otherwise
\* Stable; Strong iff Growing or Declining with |total_change_pct| > 25,
\* Moderate for the other Growing and Declining forecasts, Weak exactly for
\* the Stable ones; a baseline of 0 gives Stable and Weak.
C16_TrendClassification ==
    ForecastReturned =>
        LET r == ret.result
            b == GivenFeatures.baseline_ccu
            \* total_change_pct > k and < -k, for k >= 0
            Above(k) == /\ b.num > 0
                        /\ 100 * (r.predicted_ccu_7d * b.den - b.num) > k * b.num
            Below(k) == /\ b.num > 0
                        /\ 100 * (b.num - r.predicted_ccu_7d * b.den) > k * b.num
        IN  /\ r.trend \in {"Growing", "Declining", "Stable"}
            /\ r.trend_strength \in {"Strong", "Moderate", "Weak"}
            /\ r.trend = "Growing" <=> Above(10)
            /\ r.trend = "Declining" <=> Below(10)
            /\ r.trend_strength = "Strong" <=> (Above(25) \/ Below(25))
            /\ r.trend_strength = "Weak" <=> r.trend = "Stable"
            /\ b.num = 0 => (r.trend = "Stable" /\ r.trend_strength = "Weak")

\* a forecast whose total change is exactly 10 percent, classified Stable
C16_Witness ==
    /\ ForecastReturned
    /\ GivenFeatures.baseline_ccu.num > 0
    /\ ChangePct(ret.result.predicted_ccu_7d, GivenFeatures.baseline_ccu).num
         = 10 * ChangePct(ret.result.predicted_ccu_7d,
                          GivenFeatures.baseline_ccu).den
    /\ ret.result.trend = "Stable"
    /\ ret.result.trend_strength = "Weak"

\* Slopes beyond what a week of non-negative samples can give (the slope of
\* _calculate_trend_features is never below -100).
SteepSlopes == {Whole(0 - 101), Whole(0 - 150), Whole(0 - 1000)}

\* C17: on each of the seven days predicted_ccu >= 0, confidence_lower >= 0
\* and confidence_lower <= predicted_ccu <= confidence_upper; the bounds
\* are the whole parts of predicted_ccu - 1.5 * MAE (not below 0) and of
\* predicted_ccu + 1.5 * MAE; a slope below -100 percent is forecast as 0.
C17_ConfidenceBounds ==
    ForecastReturned =>
        /\ \A day \in 1..ForecastDays :
              LET f == ret.result.daily_forecast[day]
                  p == f.predicted_ccu
                  mae == GivenMae
                  \* 2 * mae.den * (p - 1.5 * mae), 2 * mae.den * (p + 1.5 * mae)
                  below == 2 * mae.den * p - 3 * mae.num
                  above == 2 * mae.den * p + 3 * mae.num
                  unit == 2 * mae.den
              IN  /\ p >= 0
                  /\ f.confidence_lower >= 0
                  /\ f.confidence_lower <= p
                  /\ p <= f.confidence_upper
                  /\ IF below < 0 THEN f.confidence_lower = 0
                     ELSE /\ unit * f.confidence_lower <= below
                          /\ below < unit * (f.confidence_lower + 1)
                  /\ unit * f.confidence_upper <= above
                  /\ above < unit * (f.confidence_upper + 1)
        /\ \A slope \in SteepSlopes, day \in 1..ForecastDays :
              PredictedDayCcu(GivenFeatures.baseline_ccu, slope, day) >= 0

\* a forecast with an MAE of 45.3 whose first lower bound is floored at 0
\* and whose first upper bound lost a fraction
C17_Witness ==
    /\ ForecastReturned
    /\ GivenMae = [num |-> 453, den |-> 10]
    /\ ret.result.daily_forecast[1].predicted_ccu = 10
    /\ ret.result.daily_forecast[1].confidence_lower = 0
    /\ ret.result.daily_forecast[1].confidence_upper = 77

\* C17 as stated: the bounds lie exactly 1.5 * MAE below (not below 0) and
\* above predicted_ccu.
C17_BoundsExact ==
    ForecastReturned =>
        \A day \in 1..ForecastDays :
            LET f == ret.result.daily_forecast[day]
                mae == GivenMae
                below == 2 * mae.den * f.predicted_ccu - 3 * mae.num
                above == 2 * mae.den * f.predicted_ccu + 3 * mae.num
            IN  /\ 2 * mae.den * f.confidence_lower = Max2(0, below)
                /\ 2 * mae.den * f.confidence_upper = above

\* ------------------------------------------------- the prediction factors
FactorNames ==
    {"baseline_ccu", "trend_slope", "recent_momentum", "creator_followers",
     "volatility"}

\* C18: _analyze_prediction_factors ranks the five features baseline_ccu,
\* trend_slope, recent_momentum, creator_followers and volatility by
\* descending importance for every input, and the primary driver is the
\* highest-ranked factor that is not neutral (the top-ranked factor when
\* all are neutral).  With a baseline of 0 the baseline factor is left out
\* and four features are ranked.
C18_RanksFiveFeatures ==
    (pc = "returned" /\ ret.kind = "factors") =>
        LET all == ret.factors.all_factors
            decided == {i \in DOMAIN all : all[i].direction # "neutral"}
        IN  /\ {all[i].feature : i \in DOMAIN all} = FactorNames
            /\ Len(all) = Cardinality(FactorNames)
            /\ \A i, j \in DOMAIN all :
                  i < j => all[i].importance >= all[j].importance
            /\ \E i \in DOMAIN all :
                  /\ ret.factors.primary_feature = all[i].feature
                  /\ ret.factors.primary_importance = all[i].importance
                  /\ IF decided = {} THEN i = 1
                     ELSE i \in decided /\ \A j \in decided : i <= j

\* ---------------------------------------------------------- the discovery
DiscoveryReturned == pc = "returned" /\ ret.kind = "discovery"

\* C19: prediction is YES exactly when probability > 50; confidence is High
\* when |probability - 50| > 30, Medium when it is > 15 and <= 30, Low
\* otherwise; so a High YES has probability > 80 and a High NO has
\* probability < 20.
C19_DiscoveryLabels ==
    DiscoveryReturned =>
        LET p == args.probability
            r == ret.result
            \* |probability - 50| > k
            Off(k) == \/ p.num > (50 + k) * p.den
                      \/ p.num < (50 - k) * p.den
        IN  /\ r.prediction \in {"YES", "NO"}
            /\ r.prediction = "YES" <=> p.num > 50 * p.den
            /\ r.confidence =
                  (IF Off(30) THEN "High"
                   ELSE IF Off(15) THEN "Medium" ELSE "Low")
            /\ (r.confidence = "High" /\ r.prediction = "YES")
                  => p.num > 80 * p.den
            /\ (r.confidence = "High" /\ r.prediction = "NO")
                  => p.num < 20 * p.den

\* a probability of exactly 80: YES with Medium confidence
C19_Witness ==
    /\ DiscoveryReturned
    /\ args.probability = [num |-> 8000, den |-> 100]
    /\ ret.result.prediction = "YES"
    /\ ret.result.confidence = "Medium"

GivenDiscoveryFeatures == DiscoveryFeatures(args.fetched)

Listed(lst) == {lst[i] : i \in DOMAIN lst}

\* C20: XP is in strengths when enabled and in weaknesses when not, no
\* factor is in both lists, neither list has more than 5 entries; CCU >= 300,
\* growth > 10% and followers > 10,000 are strengths, CCU < 150,
\* growth < -5% and followers < 1,000 are weaknesses, and the values in
\* between are in neither list.
C20_DiscoveryFactors ==
    DiscoveryReturned =>
        LET f == GivenDiscoveryFeatures
            strengths == Listed(ret.result.strengths)
            weaknesses == Listed(ret.result.weaknesses)
            avg == f.avg_ccu_7d
            growth == f.ccu_growth_rate
        IN  /\ "XP" \in strengths <=> f.xp_enabled = 1
            /\ "XP" \in weaknesses <=> f.xp_enabled = 0
            /\ strengths \cap weaknesses = {}
            /\ Len(ret.result.strengths) = Cardinality(strengths)
            /\ Len(ret.result.weaknesses) = Cardinality(weaknesses)
            /\ Len(ret.result.strengths) <= 5
            /\ Len(ret.result.weaknesses) <= 5
            /\ strengths \cup weaknesses
                  \subseteq {"CCU", "growth", "XP", "followers"}
            /\ "CCU" \in strengths <=> avg.num >= 300 * avg.den
            /\ "CCU" \in weaknesses <=> avg.num < 150 * avg.den
            /\ "growth" \in strengths <=> 10 * growth.num > growth.den
            /\ "growth" \in weaknesses <=> 20 * growth.num < 0 - growth.den
            /\ "followers" \in strengths <=> f.creator_followers > 10000
            /\ "followers" \in weaknesses <=> f.creator_followers < 1000

\* a map on the boundaries: with an average of exactly 150, no growth,
\* 10,000 followers and XP enabled, XP is the only entry
C20_Witness ==
    /\ DiscoveryReturned
    /\ GivenDiscoveryFeatures.avg_ccu_7d.num
         = 150 * GivenDiscoveryFeatures.avg_ccu_7d.den
    /\ GivenDiscoveryFeatures.creator_followers = 10000
    /\ ret.result.strengths = <<"XP">>
    /\ ret.result.weaknesses = <<>>

\* ----------------------------------------------------------------- the fetch
Fetched == pc = "returned" /\ ret.kind = "fetched"

Requests(op) == {i \in DOMAIN io_log : io_log[i].op = op}

\* a request that did not give usable live data: an exception or timeout,
\* an error status, an unparsable body, or details with success = false
LiveFailure(entry) ==
    IF entry.op \notin {"GET", "POST"} THEN FALSE
    ELSE IF entry.answer.kind = "exception" THEN TRUE
    ELSE IF entry.answer.status >= 400 \/ ~entry.answer.parses THEN TRUE
    ELSE entry.op = "GET" /\ ~Get(entry.answer.body, "success", FALSE)

LiveFailures == {i \in DOMAIN io_log : LiveFailure(io_log[i])}

\* the snapshot file of the requested map is there and readable
SnapshotUsable ==
    IF FileName(args.map_code) \in DOMAIN files
    THEN files[FileName(args.map_code)] # Unreadable ELSE FALSE

\* what it holds
StoredOnDisk ==
    IF SnapshotUsable THEN files[FileName(args.map_code)].data ELSE <<>>

\* C21: in one call each live request is made at most once; after a live
\* failure the local snapshot is read exactly once, as the next operation,
\* no further request follows, and what the snapshot gives (data or None)
\* is returned; when the live fetch succeeds the snapshot is not read.
C21_SingleAttemptThenFallback ==
    (pc \in {"get_details", "post_stats", "returned"}
     /\ "map_code" \in DOMAIN args /\ "live" \in DOMAIN args) =>
        /\ Cardinality(Requests("GET")) <= 1
        /\ Cardinality(Requests("POST")) <= 1
        /\ Cardinality(Requests("read_local")) <= 1
        /\ \A i \in LiveFailures :
              /\ i + 1 = Len(io_log)
              /\ io_log[i + 1].op = "read_local"
              /\ Fetched
              /\ IF ~SnapshotUsable THEN ret.value = None
                 ELSE /\ ret.value # None
                      /\ ret.value._source = "local_cache"
        /\ \A i \in Requests("read_local") : i - 1 \in LiveFailures
        /\ (Fetched /\ LiveFailures = {}) =>
              /\ Requests("read_local") = {}
              /\ Cardinality(Requests("GET")) = 1
              /\ Cardinality(Requests("POST")) = 1
              /\ ret.value._source = "live_api"
        /\ pc = "post_stats" => (io_log # <<>> /\ LiveFailures = {})

\* the details said success = false and the snapshot answered
C21_Witness ==
    /\ Fetched
    /\ Len(io_log) = 2
    /\ io_log[1].op = "GET"
    /\ io_log[1].answer = Answered(200, [success |-> FALSE])
    /\ io_log[2].op = "read_local"
    /\ ret.value # None
    /\ ret.value._source = "local_cache"

\* C27: map_data and stats_7d of a result come from the same source: a
\* result tagged live_api holds what the two live requests answered, a
\* result tagged local_cache holds the two parts of the snapshot; when the
\* details arrive and the stats request fails the result is the snapshot
\* (or None), never the live details with stored stats.
C27_OneSourcePerResult ==
    (Fetched /\ ret.value # None) =>
        /\ ret.value._source \in {"live_api", "local_cache"}
        /\ ret.value._source = "live_api" =>
              /\ LiveFailures = {}
              /\ ret.value.map_data = Get(io_log[1].answer.body, "data", <<>>)
              /\ ret.value.stats_7d = io_log[2].answer.body
        /\ ret.value._source = "local_cache" =>
              /\ LiveFailures # {}
              /\ ret.value.map_data = Get(StoredOnDisk, "map_data", <<>>)
              /\ ret.value.stats_7d = Get(StoredOnDisk, "stats_7d", <<>>)
        /\ (Requests("POST") # {} /\ LiveFailures # {}) =>
              ret.value._source = "local_cache"

\* the live details arrived, the stats request failed with status 500, and
\* the stored details and stats were returned
C27_Witness ==
    /\ Fetched
    /\ Len(io_log) = 3
    /\ io_log[1].answer = Answered(200, [success |-> TRUE, data |-> LiveDetails])
    /\ io_log[2].answer = Answered(500, <<>>)
    /\ ret.value # None
    /\ ret.value.map_data = StoredDetails
    /\ ret.value.stats_7d = StoredStats
    /\ ret.value._source = "local_cache"

\* ------------------------------------------------------ the served results
\* the result a handler returned, and the source of the data behind it
ServedResult ==
    IF pc = "returned" /\ response.kind = "result" THEN response
    ELSE IF pc = "returned" /\ ret.kind \in {"forecast", "discovery"}
    THEN ret.result
    ELSE None

ServedSource ==
    IF response.kind = "result" THEN map_data.source
    ELSE args.fetched._source

\* C22: a result computed from the local snapshot has data_source
\* 'local_cache', a collection_date and the staleness warning; a result
\* computed from live data has data_source 'live_api' and neither
\* cache_warning nor collection_date.
C22_CachedResultsAreFlagged ==
    ServedResult # None =>
        /\ ServedSource \in {"local_cache", "live_api"}
        /\ ServedResult.data_source = ServedSource
        /\ ServedSource = "local_cache" =>
              /\ {"cache_warning", "collection_date"}
                    \subseteq DOMAIN ServedResult
              /\ ServedResult.cache_warning = "may be outdated"
        /\ ServedSource = "live_api" =>
              {"cache_warning", "collection_date"} \cap DOMAIN ServedResult = {}

\* a forecast computed from the snapshot of October 29
C22_Witness ==
    /\ pc = "returned"
    /\ ret.kind = "forecast"
    /\ args.fetched._source = "local_cache"
    /\ ret.result.data_source = "local_cache"
    /\ ret.result.collection_date = "October 29"
    /\ ret.result.cache_warning = "may be outdated"

EventAt(op, t) ==
    CHOOSE i \in 1..Len(io_log) : io_log[i].op = op /\ io_log[i].task = t

\* what an invocation gives when it is the only one running, on the data it
\* fetched and the library answers it got
Alone(frame) ==
    IF "fetched" \in DOMAIN frame
    THEN AfterFetch(args, frame.handler, frame.fetched, frame.given)
    ELSE NotLoaded(args, frame.handler)

ModelOverwritten ==
    /\ Exists(files, Deployed("future_ccu_predictor.pkl"))
    /\ \/ ~Exists(args.disk, Deployed("future_ccu_predictor.pkl"))
       \/ io_log # <<>> /\ \E i \in 1..Len(io_log) :
            /\ io_log[i].op = "write"
            /\ io_log[i].file = "future_ccu_predictor.pkl"

\* C25: for every combination of force and dry_run, auto_retrain writes
\* the deployed model file only when the newly trained model has a higher
\* R2 score than the model deployed before.
C25_DeploysOnlyBetterModels ==
    (pc \in {"dumped", "deployed", "returned"} /\ ModelOverwritten)
        => tasks[1].new_perf.r2_score > tasks[1].current_perf.r2_score

LogWritten ==
    \E i \in 1..Len(io_log) :
        io_log[i].op = "write" /\ io_log[i].file = "training_log.json"

Unchanged(filename) ==
    IF Exists(args.disk, filename)
    THEN Exists(files, filename) /\ files[filename] = args.disk[filename]
    ELSE ~Exists(files, filename)

\* C29: a deployed file differs from what the run found only when every
\* deployed file the run found has its copy in the backup directory; the
\* training log is written only by a run that ends with "deployed"; a run
\* that ends with skipped, dry_run, failed or not_deployed leaves the model
\* files, the metadata and the training log as it found them.
C29_BackupBeforeOverwrite ==
    /\ (\E f \in FilesToBackup : ~Unchanged(Deployed(f)))
          => \A f \in FilesToBackup :
                Exists(args.disk, Deployed(f))
                    => /\ Exists(files, BackedUp(f))
                       /\ files[BackedUp(f)] = args.disk[Deployed(f)]
    /\ ~Unchanged(TrainingLogFile)
          => pc = "returned" /\ ret.action = "deployed"
    /\ (pc = "returned"
        /\ ret.action \in {"skipped", "dry_run", "failed", "not_deployed"})
          => files = args.disk

\* A run replaced a deployed model whose files are now in the backup
\* directory, and wrote the training log.
C29_Witness ==
    /\ pc = "returned"
    /\ ret.action = "deployed"
    /\ Exists(args.disk, Deployed("future_ccu_predictor.pkl"))
    /\ files[Deployed("future_ccu_predictor.pkl")]
         # args.disk[Deployed("future_ccu_predictor.pkl")]
    /\ files[BackedUp("future_ccu_predictor.pkl")]
         = args.disk[Deployed("future_ccu_predictor.pkl")]
    /\ LogWritten
Classified(results) == results.successful + results.failed + results.skipped

IsSnapshot(file) == file # CollectionLogFile(args.today)

\* C28: collect_daily_data counts every listed map once as successful,
\* failed or skipped, with one errors entry per failure; a pass of the loop
\* skips a map, without fetching it and without writing a file, exactly
\* when today's file of the map exists; and no snapshot file that existed
\* when a run began is changed by it.
C28_EveryMapClassifiedOnce ==
    /\ [](/\ Classified(tasks[1].results) = tasks[1].i
          /\ Len(tasks[1].results.errors) = tasks[1].results.failed
          /\ pc = "returned" =>
                /\ Classified(ret.results) = ret.results.total_maps
                /\ ret.results.total_maps = Len(args.map_codes)
          /\ \A file \in DOMAIN tasks[1].before :
                IsSnapshot(file) =>
                    Exists(files, file) /\ files[file] = tasks[1].before[file])
    /\ [][tasks'[1].i = tasks[1].i + 1 =>
            LET map_code == args.map_codes[tasks'[1].i]
                existed == Exists(files, TodayFile(map_code, args.today))
                skipped == tasks'[1].results.skipped
                              = tasks[1].results.skipped + 1
            IN  /\ skipped <=> existed
                /\ skipped => files' = files /\ io_log' = io_log
                /\ ~skipped => Len(io_log') = Len(io_log) + 1]_vars

\* A second run of the day has skipped a map the first run saved and
\* fetched a map the first run could not save.
C28_Witness ==
    /\ pc = "returned"
    /\ tasks[1].now = 2
    /\ ret.results.skipped = 1
    /\ ret.results.successful = 1
    /\ Len(args.map_codes) = 2
    /\ \E file \in DOMAIN files :
          IsSnapshot(file) /\ files[file].collection_timestamp = 1
\* the texts a request brings: its message, the result of the function
\* called for it, and the conversation_history passed with it
OwnTexts(t) ==
    {tasks[t].message, <<"result for caller", t>>}
    \cup {tasks[t].conversation_history[i] :
            i \in 1..Len(tasks[t].conversation_history)}

\* C30: the context from which a reply of chat() is generated holds, from
\* users and functions, only what the request itself brought: no message or
\* function result of another request is part of it.
C30_RepliesUseOwnContextOnly ==
    \A t \in Callers :
        (tasks[t].pc = "done" /\ "context" \in DOMAIN tasks[t]) =>
            \A i \in 1..Len(tasks[t].context) :
                tasks[t].context[i].role \in {"user", "function"}
                    => tasks[t].context[i].text \in OwnTexts(t)
\* the votes of the bursts of the input, in the order of their indices
BurstVotes ==
    [k \in 1..args.bursts |->
        [votes |-> IF BurstAt(k) \in args.detector_out["LOF"].indices
                   THEN 3 ELSE 2]]

Listed10 == IF args.bursts < 10 THEN args.bursts ELSE 10

\* C26: the response of detect_anomalies lists the first min(num_spikes, 10)
\* spike events in ascending order of peak index, while num_spikes,
\* is_anomalous and anomaly_score cover all the events; the listed events
\* number num_spikes exactly when num_spikes <= 10.
C26_ListsFirstTenOfAllSpikes ==
    (pc = "returned" /\ ret.kind = "anomalies") =>
        LET r == ret.value
        IN  /\ r.kind = "result"
            /\ r.num_spikes = args.bursts
            /\ r.is_anomalous = (args.bursts > 0)
            /\ r.anomaly_score = AnomalyScore(BurstVotes)
            /\ Len(r.spike_details) = Listed10
            /\ \A k \in 1..Len(r.spike_details) :
                  /\ r.spike_details[k].timestamp_index = BurstAt(k)
                  /\ r.spike_details[k].votes = BurstVotes[k].votes
                  /\ k > 1 => r.spike_details[k - 1].timestamp_index
                                < r.spike_details[k].timestamp_index
            /\ (Len(r.spike_details) = r.num_spikes) <=> (r.num_spikes <= 10)

\* Twelve spikes were found, ten are listed, and the score counts the
\* third vote of the two that are not listed.
C26_Witness ==
    /\ pc = "returned"
    /\ ret.kind = "anomalies"
    /\ ret.value.num_spikes = 12
    /\ Len(ret.value.spike_details) = 10
    /\ args.lof = "late"
    /\ ret.value.anomaly_score # AnomalyScore(SubSeq(BurstVotes, 1, 10))
====
